---- MODULE Spec2Model ----
(***************************************************************************)
(* pulumiconfig.GetConfig: reading a typed target structure from the       *)
(* Pulumi configuration (primary namespace, optional override namespace),  *)
(* followed by the validation pass with the built-in `default` and `env`   *)
(* rules; and the package's helpers mergeObjects and CloneStruct, applied  *)
(* to values held in a store of addressed cells.                           *)
(*                                                                         *)
(* Strings are sequences of one-character strings, so that the strconv     *)
(* conversions are computed on the text.  A float is an exact decimal      *)
(* [m |-> mantissa, e |-> number of fraction digits], normalised.          *)
(***************************************************************************)
EXTENDS Integers, Sequences, FiniteSets, TLC

VARIABLES
    schema,     \* the target type: one field descriptor per top-level field
    config,     \* the Pulumi configuration: per field, the JSON stored under its key
    environ,    \* the process environment
    obj,        \* the target object: one value per top-level field
    pc,         \* GetConfig's position: "read", "register", "validate", "return", "done",
                \* or "panic" when the call ended in a panic
    idx,        \* the field the read loop / the validator is at
    err,        \* GetConfig's return value
    rd,         \* per field: what the read/merge step did (history)
    registered, \* the tags registered on the validator instance, in order
    ran,        \* the rules the validator has executed: <<field, position in tag>>
    verrs,      \* the validator's field errors, in order
    validators, \* the validators the caller passes to GetConfig
    calls,      \* the GetConfig calls that ended before this one: what each was
                \* given and what it left (history)
    heap,       \* the store: the struct each address holds
    call,       \* the helper call under way: its name and operands
    ret,        \* what the helper call returned
    pt          \* the pulumitest helper under way: its outputs, its WaitGroup, its
                \* goroutines, its targets and whether it marked the test failed

lib == <<heap, call, ret, pt>>

gc == <<schema, config, environ, obj, pc, idx, err, rd, registered, ran, verrs, validators,
       calls>>

vars == <<schema, config, environ, obj, pc, idx, err, rd, registered, ran, verrs,
          validators, calls, heap, call, ret, pt>>

\* ------------------------------------------------------------------ bounds

NumFields == 2

\* GetConfig is called at most this many times, one call after the other.
MaxCalls == 3

\* ------------------------------------------------------------------- text

Digits == <<"0", "1", "2", "3", "4", "5", "6", "7", "8", "9">>

IsDigit(c) == \E d \in 1..10 : Digits[d] = c

DigitVal(c) == (CHOOSE d \in 1..10 : Digits[d] = c) - 1

AllDigits(s) == \A k \in 1..Len(s) : IsDigit(s[k])

RECURSIVE DigitsVal(_)
DigitsVal(s) ==
    IF s = <<>> THEN 0
    ELSE 10 * DigitsVal(SubSeq(s, 1, Len(s) - 1)) + DigitVal(s[Len(s)])

RECURSIVE Pow10(_)
Pow10(n) == IF n = 0 THEN 1 ELSE 10 * Pow10(n - 1)

\* A decimal without trailing zeros in its fraction.
RECURSIVE NormDec(_)
NormDec(d) ==
    IF d.e > 0 /\ d.m % 10 = 0 THEN NormDec([m |-> d.m \div 10, e |-> d.e - 1])
    ELSE d

Dec(m, e) == NormDec([m |-> m, e |-> e])

DotAt(s) == IF \E k \in 1..Len(s) : s[k] = "."
            THEN CHOOSE k \in 1..Len(s) : s[k] = "." /\ \A j \in 1..(k - 1) : s[j] # "."
            ELSE 0

\* strconv.ParseInt(s, 10, 64): an optional sign, then one or more digits.
ParseInt(s) ==
    LET signed == s # <<>> /\ s[1] \in {"+", "-"}
        body   == IF signed THEN Tail(s) ELSE s
    IN  IF body = <<>> \/ ~AllDigits(body) THEN [ok |-> FALSE, v |-> 0]
        ELSE [ok |-> TRUE,
              v  |-> IF signed /\ s[1] = "-" THEN 0 - DigitsVal(body) ELSE DigitsVal(body)]

\* strconv.ParseUint(s, 10, 64): one or more digits, no sign.
ParseUint(s) ==
    IF s = <<>> \/ ~AllDigits(s) THEN [ok |-> FALSE, v |-> 0]
    ELSE [ok |-> TRUE, v |-> DigitsVal(s)]

\* strconv.ParseFloat(s, 64) on decimal notation: an optional sign, digits with an
\* optional point, at least one digit.
ParseFloat(s) ==
    LET signed == s # <<>> /\ s[1] \in {"+", "-"}
        body   == IF signed THEN Tail(s) ELSE s
        dot    == DotAt(body)
        ip     == IF dot = 0 THEN body ELSE SubSeq(body, 1, dot - 1)
        fp     == IF dot = 0 THEN <<>> ELSE SubSeq(body, dot + 1, Len(body))
        mag    == DigitsVal(ip) * Pow10(Len(fp)) + DigitsVal(fp)
    IN  IF ~AllDigits(ip) \/ ~AllDigits(fp) \/ Len(ip) + Len(fp) = 0
        THEN [ok |-> FALSE, v |-> Dec(0, 0)]
        ELSE [ok |-> TRUE,
              v  |-> Dec(IF signed /\ s[1] = "-" THEN 0 - mag ELSE mag, Len(fp))]

\* strconv.ParseBool.
ParseBool(s) ==
    IF s \in {<<"1">>, <<"t">>, <<"T">>, <<"T", "R", "U", "E">>,
              <<"t", "r", "u", "e">>, <<"T", "r", "u", "e">>}
    THEN [ok |-> TRUE, v |-> TRUE]
    ELSE IF s \in {<<"0">>, <<"f">>, <<"F">>, <<"F", "A", "L", "S", "E">>,
                   <<"f", "a", "l", "s", "e">>, <<"F", "a", "l", "s", "e">>}
    THEN [ok |-> TRUE, v |-> FALSE]
    ELSE [ok |-> FALSE, v |-> FALSE]

\* ----------------------------------------------------------------- values

\* The kinds of top-level field modelled.  A field of kind "struct" is of the type
\*   struct { Region string `json:"region"`; Project string `json:"project"` }.
\* A field of kind "ptr" is a pointer to that struct type.
Kinds == {"string", "int", "uint", "float", "bool", "struct", "ptr"}

Leaves == {"region", "project"}

\* A pointer field: nil, or a pointer to a struct of the field's own.
Nil == [ptr |-> FALSE, to |-> [l \in Leaves |-> <<>>]]

PtrTo(v) == [ptr |-> TRUE, to |-> v]

ZeroOf(kind) ==
    CASE kind = "string" -> <<>>
      [] kind = "int"    -> 0
      [] kind = "uint"   -> 0
      [] kind = "float"  -> Dec(0, 0)
      [] kind = "bool"   -> FALSE
      [] kind = "struct" -> [l \in Leaves |-> <<>>]
      [] kind = "ptr"    -> Nil

\* A stored configuration value, as the JSON it holds.
JAbsent  == [t |-> "absent"]
JOmit    == [t |-> "omit"]
JStr(s)  == [t |-> "str", s |-> s]
JNum(d)  == [t |-> "num", n |-> d]
JBool(b) == [t |-> "bool", b |-> b]
JObj(o)  == [t |-> "obj", o |-> o]

\* json.Unmarshal into a scalar of the given kind: a value of the wrong JSON type
\* is an UnmarshalTypeError and leaves the destination as it was.
UnmarshalScalar(kind, cur, j) ==
    CASE kind = "string" ->
            IF j.t = "str" THEN [val |-> j.s, err |-> "nil"]
            ELSE [val |-> cur, err |-> "decode"]
      [] kind = "int" ->
            IF j.t = "num" /\ j.n.e = 0 THEN [val |-> j.n.m, err |-> "nil"]
            ELSE [val |-> cur, err |-> "decode"]
      [] kind = "uint" ->
            IF j.t = "num" /\ j.n.e = 0 /\ j.n.m >= 0 THEN [val |-> j.n.m, err |-> "nil"]
            ELSE [val |-> cur, err |-> "decode"]
      [] kind = "float" ->
            IF j.t = "num" THEN [val |-> j.n, err |-> "nil"]
            ELSE [val |-> cur, err |-> "decode"]
      [] kind = "bool" ->
            IF j.t = "bool" THEN [val |-> j.b, err |-> "nil"]
            ELSE [val |-> cur, err |-> "decode"]

\* json.Unmarshal: into a struct it decodes every key present, skips a key whose
\* value has the wrong type, and reports the type error after completing the rest.
Unmarshal(kind, cur, j) ==
    IF kind # "struct" THEN UnmarshalScalar(kind, cur, j)
    ELSE IF j.t # "obj" THEN [val |-> cur, err |-> "decode"]
    ELSE LET leaf(l) == IF j.o[l].t = "omit" THEN [val |-> cur[l], err |-> "nil"]
                        ELSE UnmarshalScalar("string", cur[l], j.o[l])
         IN  [val |-> [l \in Leaves |-> leaf(l).val],
              err |-> IF \E l \in Leaves : leaf(l).err # "nil" THEN "decode" ELSE "nil"]

\* config.Config.TryObject: ErrMissingVar when the key is not set, else json.Unmarshal.
TryObject(j, kind, cur) ==
    IF j.t = "absent" THEN [val |-> cur, err |-> "missing"]
    ELSE Unmarshal(kind, cur, j)

\* config.Config.GetObject into a pointer field: nil and no change when the key is
\* not set, else json.Unmarshal, which allocates the struct of a nil pointer.
GetObject(j, cur) ==
    IF j.t = "absent" THEN [val |-> cur, err |-> "nil"]
    ELSE LET r == Unmarshal("struct", cur.to, j)
         IN  [val |-> PtrTo(r.val), err |-> r.err]

\* populateFieldFromConfig: GetObject for a pointer field, TryObject for the others.
populateFieldFromConfig(j, kind, cur) ==
    IF kind = "ptr" THEN GetObject(j, cur) ELSE TryObject(j, kind, cur)

\* CloneStruct: dst is a new zero value of src's type; every field of it that can
\* be set (an exported field) takes the value of src's field, as an assignment
\* copies it: a pointer field of the copy holds the same address.
CloneStructNothing(src, dst, canSet) == dst

CloneStruct(src, dst, canSet) ==
    [l \in DOMAIN src |-> IF canSet[l] THEN src[l] ELSE dst[l]]

\* CloneStruct panics in reflect on a value that is no struct (NumField) and on a
\* nil pointer (Type of the zero Value).
CloneStructPanics(kind, v) ==
    CASE kind = "struct" -> FALSE
      [] kind = "ptr"    -> ~v.ptr
      [] OTHER           -> TRUE

\* isZeroValue: reflect.DeepEqual with the zero value of the type.
isZeroValue(kind, v) == v = ZeroOf(kind)

\* mergo.Merge(dst, src, mergo.WithOverride) on two structs: a field of src that is
\* not empty replaces the field of dst.
MergeKeepDst(dst, src) == dst

Merge(dst, src) ==
    [l \in DOMAIN dst |-> IF src[l] # <<>> THEN src[l] ELSE dst[l]]

\* overwriteFieldFromOverwriteCfg: clone the field, read the override namespace into
\* the clone, merge the clone back into the field.  The clone of a pointer field is
\* the struct it points to; mergo.Merge takes a destination that points to a
\* struct, and returns ErrNotSupported for the address of a pointer field.
\* err "panic" stands for the panic of CloneStruct.
overwriteFieldFromOverwriteCfg(field, j, kind) ==
    IF CloneStructPanics(kind, field) THEN [val |-> field, err |-> "panic"]
    ELSE LET clone == CloneStruct(IF kind = "ptr" THEN field.to ELSE field,
                                  ZeroOf("struct"), [l \in Leaves |-> TRUE])
             r     == populateFieldFromConfig(j, "struct", clone)
         IN  IF r.err # "nil" THEN [val |-> field, err |-> r.err]
             ELSE IF kind = "ptr" THEN [val |-> field, err |-> "merge"]
             ELSE [val |-> Merge(field, r.val), err |-> "nil"]

\* ------------------------------------------------------------- validators

Rule(tag, param) == [tag |-> tag, param |-> param]

\* string2Number.
string2Number(s, t) ==
    CASE t = "int64"   -> ParseInt(s)
      [] t = "uint64"  -> ParseUint(s)
      [] t = "float64" -> ParseFloat(s)

\* GetValidations: the built-in validators, in the order they are registered.
GetValidations == <<"default", "env">>

\* Validation.defaultSetter: the value of the field afterwards and the rule's verdict.
defaultSetterAlways(kind, cur, defaultValue) ==
    CASE kind = "int" ->
            LET d == string2Number(defaultValue, "int64")
            IN  IF d.ok THEN [val |-> d.v, ok |-> TRUE] ELSE [val |-> cur, ok |-> FALSE]
      [] kind = "uint" ->
            LET d == string2Number(defaultValue, "uint64")
            IN  IF d.ok THEN [val |-> d.v, ok |-> TRUE] ELSE [val |-> cur, ok |-> FALSE]
      [] kind = "float" ->
            LET d == string2Number(defaultValue, "float64")
            IN  IF d.ok THEN [val |-> d.v, ok |-> TRUE] ELSE [val |-> cur, ok |-> FALSE]
      [] kind = "string" -> [val |-> defaultValue, ok |-> TRUE]
      [] OTHER -> [val |-> cur, ok |-> TRUE]

defaultSetterNoop(kind, cur, defaultValue) == [val |-> cur, ok |-> TRUE]

defaultSetter(kind, cur, defaultValue) ==
    IF defaultValue = <<>> THEN [val |-> cur, ok |-> TRUE]
    ELSE CASE kind = "int" ->
                IF cur = 0
                THEN LET d == string2Number(defaultValue, "int64")
                     IN  IF ~d.ok THEN [val |-> cur, ok |-> FALSE]
                         ELSE [val |-> d.v, ok |-> TRUE]
                ELSE [val |-> cur, ok |-> TRUE]
           [] kind = "uint" ->
                IF cur = 0
                THEN LET d == string2Number(defaultValue, "uint64")
                     IN  IF ~d.ok THEN [val |-> cur, ok |-> FALSE]
                         ELSE [val |-> d.v, ok |-> TRUE]
                ELSE [val |-> cur, ok |-> TRUE]
           [] kind = "float" ->
                IF cur.m = 0
                THEN LET d == string2Number(defaultValue, "float64")
                     IN  IF ~d.ok THEN [val |-> cur, ok |-> FALSE]
                         ELSE [val |-> d.v, ok |-> TRUE]
                ELSE [val |-> cur, ok |-> TRUE]
           [] kind = "string" ->
                IF cur = <<>> THEN [val |-> defaultValue, ok |-> TRUE]
                ELSE [val |-> cur, ok |-> TRUE]
           [] OTHER -> [val |-> cur, ok |-> TRUE]

\* os.LookupEnv.
Unset == [set |-> FALSE, val |-> <<>>]

LookupEnv(env, name) == IF name \in DOMAIN env THEN env[name] ELSE Unset

\* What envLoader assigns for a variable's text, and whether it assigns at all.
envParsed(kind, val) ==
    CASE kind = "string" -> [ok |-> TRUE, v |-> val]
      [] kind = "int"    -> string2Number(val, "int64")
      [] kind = "uint"   -> string2Number(val, "uint64")
      [] kind = "float"  -> string2Number(val, "float64")
      [] kind = "bool"   -> ParseBool(val)
      [] OTHER           -> [ok |-> FALSE, v |-> val]

\* Validation.envLoader.
envLoaderAlways(kind, cur, envVar, env) ==
    LET e == LookupEnv(env, envVar)
        d == envParsed(kind, e.val)
    IN  IF e.set /\ e.val # <<>> /\ d.ok THEN [val |-> d.v, ok |-> TRUE]
        ELSE [val |-> cur, ok |-> TRUE]

envLoaderStrict(kind, cur, envVar, env) ==
    LET e == LookupEnv(env, envVar)
        d == envParsed(kind, e.val)
    IN  IF envVar = <<>> \/ ~isZeroValue(kind, cur) THEN [val |-> cur, ok |-> TRUE]
        ELSE IF ~e.set \/ e.val = <<>> \/ ~d.ok THEN [val |-> cur, ok |-> FALSE]
        ELSE [val |-> d.v, ok |-> TRUE]

envLoader(kind, cur, envVar, env) ==
    IF envVar = <<>> THEN [val |-> cur, ok |-> TRUE]
    ELSE IF ~isZeroValue(kind, cur) THEN [val |-> cur, ok |-> TRUE]
    ELSE LET e == LookupEnv(env, envVar)
         IN  IF ~e.set \/ e.val = <<>> THEN [val |-> cur, ok |-> TRUE]
             ELSE LET d == envParsed(kind, e.val)
                  IN  [val |-> IF d.ok THEN d.v ELSE cur, ok |-> TRUE]

\* The validator library's `required`: the field has a value other than its zero.
hasValue(kind, cur) == ~isZeroValue(kind, cur)

\* The words of a tag parameter, separated by spaces.
RECURSIVE SplitSpaces(_)
SplitSpaces(s) ==
    IF s = <<>> THEN {}
    ELSE IF s[1] = " " THEN SplitSpaces(Tail(s))
    ELSE LET stop == IF \E k \in 1..Len(s) : s[k] = " "
                     THEN CHOOSE k \in 1..Len(s) :
                            s[k] = " " /\ \A j \in 1..(k - 1) : s[j] # " "
                     ELSE Len(s) + 1
         IN  {SubSeq(s, 1, stop - 1)} \cup SplitSpaces(SubSeq(s, stop + 1, Len(s)))

\* The validator library's `oneof` on a string: the value is one of the words.
isOneOfAny(cur, param) == TRUE

isOneOf(cur, param) == cur \in SplitSpaces(param)

\* One tag of a field's validate string, run against the field.
applyTag(kind, cur, rule, env) ==
    CASE rule.tag = "required" -> [val |-> cur, ok |-> hasValue(kind, cur)]
      [] rule.tag = "default"  -> defaultSetter(kind, cur, rule.param)
      [] rule.tag = "env"      -> envLoader(kind, cur, rule.param, env)
      [] rule.tag = "oneof"    -> [val |-> cur, ok |-> isOneOf(cur, rule.param)]

\* validate.Struct on one field: the tags run left to right; the first one that
\* fails is recorded and ends the field.  [val, failed (position or 0), ran].
RECURSIVE runTagsAll(_, _, _, _, _)
runTagsAll(kind, cur, tags, k, env) ==
    IF k > Len(tags) THEN [val |-> cur, failed |-> 0, ran |-> {}]
    ELSE LET r    == applyTag(kind, cur, tags[k], env)
             rest == runTagsAll(kind, r.val, tags, k + 1, env)
         IN  [val |-> rest.val, failed |-> IF ~r.ok THEN k ELSE rest.failed,
              ran |-> {k} \cup rest.ran]

RECURSIVE runTags(_, _, _, _, _)
runTags(kind, cur, tags, k, env) ==
    IF k > Len(tags) THEN [val |-> cur, failed |-> 0, ran |-> {}]
    ELSE LET r == applyTag(kind, cur, tags[k], env)
         IN  IF ~r.ok THEN [val |-> r.val, failed |-> k, ran |-> {k}]
             ELSE LET rest == runTags(kind, r.val, tags, k + 1, env)
                  IN  [val |-> rest.val, failed |-> rest.failed, ran |-> {k} \cup rest.ran]

\* A `required` that leads the tag of a struct-kind field (not a pointer) is skipped
\* by the library (validator.New() without WithRequiredStructEnabled).
traverseFieldNoTags(kind, cur, tags, env) == [val |-> cur, failed |-> 0, ran |-> {}]

\* On a nil pointer the library runs only `required`; for any other leading tag
\* it records a failure of that tag without calling the tag's function (the
\* package registers default and env without callValidationEvenIfNull).
traverseField(kind, cur, tags, env) ==
    IF kind = "ptr" /\ ~cur.ptr /\ tags # <<>> /\ tags[1].tag # "required"
    THEN [val |-> cur, failed |-> 1, ran |-> {}]
    ELSE runTags(kind, cur, tags,
                 IF kind = "struct" /\ tags # <<>> /\ tags[1].tag = "required" THEN 2 ELSE 1,
                 env)

\* What validate.Struct leaves of one field: its value, the tag that failed (if
\* one did), the tags that ran.
fieldResult(val, tags, failed, tagsRan) ==
    [val |-> val, errs |-> IF failed = 0 THEN <<>> ELSE <<tags[failed].tag>>, ran |-> tagsRan]

\* The field after the tags of its Region sub-field ran (in).
structResult(fd, own, in) ==
    fieldResult(IF fd.kind = "ptr" THEN [own.val EXCEPT !.to.region = in.val]
                ELSE [own.val EXCEPT !.region = in.val],
                fd.sub, in.failed, own.ran)

\* After a field's own tags ran (own): validate.Struct goes into a struct-kind
\* field, and into a pointer field that is not nil, and runs the tags of its
\* Region sub-field.
validateStruct(fd, own, env) ==
    IF \/ fd.kind \notin {"struct", "ptr"}
       \/ own.failed # 0
       \/ (fd.kind = "ptr" /\ ~own.val.ptr)
    THEN fieldResult(own.val, fd.validate, own.failed, own.ran)
    ELSE structResult(fd, own,
                      runTags("string",
                              IF fd.kind = "ptr" THEN own.val.to.region ELSE own.val.region,
                              fd.sub, 1, env))

\* validate.Struct on one top-level field: its own tags, then the sub-field's.
\* [val, errs (the failing tags), ran].
validateField(fd, cur, env) ==
    validateStruct(fd, traverseField(fd.kind, cur, fd.validate, env), env)

\* A struct-level rule the caller supplies (StructValidation), registered for the
\* target type: it reports a struct-kind field that names a project and no region.
projectNeedsRegion(sch, o, i) ==
    sch[i].kind = "struct" /\ o[i].project # <<>> /\ o[i].region = <<>>

StructValidation == "projectNeedsRegion"

\* The struct-level functions registered for the target type run after its fields:
\* the errors they report, in field order.
structLevel(reg, sch, o) ==
    IF \E k \in 1..Len(reg) : reg[k] = StructValidation
    THEN LET hit == SelectSeq([i \in 1..Len(sch) |-> i],
                              LAMBDA i : projectNeedsRegion(sch, o, i))
         IN  [k \in 1..Len(hit) |-> [field |-> hit[k], tag |-> StructValidation]]
    ELSE <<>>

\* ----------------------------------------------------------------- inputs

\* A field descriptor: the struct tags GetConfig and the validator read.
\* jsonTag "" is a field without a json tag; the key of field i is its own.
\* sub holds the validate tags of the Region sub-field of a struct-kind field.
Field(kind, jsonTag, validate, overrideNs) ==
    [kind |-> kind, jsonTag |-> jsonTag, validate |-> validate,
     overrideConfigNamespace |-> overrideNs, sub |-> <<>>]

WithSub(fd, tags) == [fd EXCEPT !.sub = tags]

Input(fd, primary, override) ==
    [fd |-> fd, cfg |-> [primary |-> primary, override |-> override]]

EnvName == <<"E">>

DefaultLits == {<<>>, <<"7">>, <<"0">>, <<"x">>, <<"-", "3">>, <<"2", ".", "5">>}

EnvVals == {Unset,
            [set |-> TRUE, val |-> <<>>],
            [set |-> TRUE, val |-> <<"9">>],
            [set |-> TRUE, val |-> <<"x">>],
            [set |-> TRUE, val |-> <<"t", "r", "u", "e">>]}

ScalarKinds == {"string", "int", "uint", "float", "bool"}

\* The values stored under a scalar field's key: absent, the zero, a non-zero
\* value, and a value of the wrong type for the field.
ScalarJ(kind) ==
    CASE kind = "string" -> {JAbsent, JStr(<<>>), JStr(<<"a">>), JNum(Dec(7, 0))}
      [] kind = "int"    -> {JAbsent, JNum(Dec(0, 0)), JNum(Dec(5, 0)), JStr(<<"1", "0">>)}
      [] kind = "uint"   -> {JAbsent, JNum(Dec(0, 0)), JNum(Dec(5, 0)), JNum(Dec(0 - 3, 0))}
      [] kind = "float"  -> {JAbsent, JNum(Dec(0, 0)), JNum(Dec(25, 1)), JStr(<<"1", "0">>)}
      [] kind = "bool"   -> {JAbsent, JBool(FALSE), JBool(TRUE), JStr(<<"a">>)}

\* The validate tags of a scalar field.
ScalarTags ==
    {<<>>, <<Rule("required", <<>>)>>}
    \cup {<<Rule("default", d)>> : d \in DefaultLits}
    \cup {<<Rule("env", EnvName)>>}
    \cup {<<Rule("default", d), Rule("env", EnvName)>> : d \in DefaultLits}
    \cup {<<Rule("env", EnvName), Rule("default", d)>> : d \in DefaultLits}

RegionJ == {JOmit, JStr(<<>>), JStr(<<"a">>), JStr(<<"b">>), JStr(<<"z">>), JNum(Dec(7, 0))}

ProjectJ == {JOmit, JStr(<<"p">>)}

StructJ ==
    {JAbsent} \cup {JObj([region |-> r, project |-> p]) : r \in RegionJ, p \in ProjectJ}

StructTags == {<<>>, <<Rule("required", <<>>)>>}

\* The validate tags of a field that has no json tag.
UntaggedTags ==
    {<<Rule("default", <<"7">>)>>, <<Rule("env", EnvName)>>, <<Rule("required", <<>>)>>}

\* Region string `validate:"required,oneof=a b"`.
OneofTags == <<Rule("required", <<>>), Rule("oneof", <<"a", " ", "b">>)>>

\* `validate:"required,default=7"`: required, and a further rule.
RequiredAndMore == <<Rule("required", <<>>), Rule("default", <<"7">>)>>

\* What is stored for such a field: nothing, an object, an object that does not
\* decode.
RequiredAndMoreJ ==
    {JAbsent, JObj([region |-> JStr(<<"a">>), project |-> JOmit]),
     JObj([region |-> JNum(Dec(7, 0)), project |-> JOmit])}

\* The field the run is about: every descriptor and every stored value.
RichInputs ==
    {Input(Field(k, "key", v, ""), j, JAbsent) :
        <<k, v, j>> \in {t \in ScalarKinds \X ScalarTags \X UNION {ScalarJ(k) : k \in ScalarKinds} :
                            t[3] \in ScalarJ(t[1])}}
    \cup {Input(Field("struct", "key", v, "esc"), j, o) :
            <<v, j, o>> \in StructTags \X StructJ \X StructJ}
    \cup {Input(Field("struct", "key", v, ""), j, JAbsent) :
            <<v, j>> \in StructTags \X StructJ}
    \cup {Input(WithSub(Field("struct", "key", <<Rule("required", <<>>)>>, "esc"), OneofTags),
                 j, o) : <<j, o>> \in StructJ \X StructJ}
    \cup {Input(Field(k, "", v, ""), JAbsent, JAbsent) :
            <<k, v>> \in {"string", "int"} \X UntaggedTags}
    \cup {Input(Field("struct", "key", RequiredAndMore, "esc"), j, o) :
            <<j, o>> \in RequiredAndMoreJ \X RequiredAndMoreJ}
    \cup {Input(Field(k, "key", <<Rule("default", d)>>, ""), j, JAbsent) :
            <<k, d, j>> \in {"struct", "ptr"} \X {<<"7">>, <<"x">>}
                            \X {JAbsent, JObj([region |-> JStr(<<"a">>), project |-> JOmit])}}

\* The other fields of the target type.
SimpleInputs ==
    {Input(Field("int", "key", <<Rule("default", <<"7">>)>>, ""), j, JAbsent) :
        j \in {JAbsent, JNum(Dec(5, 0))}}
    \cup {Input(Field("string", "", <<Rule("default", <<"7">>)>>, ""), JAbsent, JAbsent)}
    \cup {Input(Field("struct", "key", <<Rule("required", <<>>)>>, "esc"), JAbsent, JAbsent)}
    \cup {Input(Field("string", "key", <<Rule("required", <<>>)>>, ""), JAbsent, JAbsent)}

\* A field of any kind with an override namespace, and pointer fields without.
AnyFieldInputs ==
    UNION {{Input(Field(k, "key", v, "esc"), j, o) :
                <<v, j, o>> \in StructTags \X ScalarJ(k) \X ScalarJ(k)} : k \in ScalarKinds}
    \cup {Input(Field(k, "key", v, "esc"), j, o) :
            <<k, v, j, o>> \in {"struct", "ptr"} \X StructTags \X StructJ \X StructJ}
    \cup {Input(Field("ptr", "key", v, ""), j, JAbsent) :
            <<v, j>> \in StructTags \X StructJ}

HasEnvTag(fd) == \E k \in 1..Len(fd.validate) : fd.validate[k].tag = "env"

\* What the caller passes as validators: nothing, or one struct-level rule.
CallerValidators(fd) ==
    IF fd.kind = "struct" THEN {<<>>, <<StructValidation>>} ELSE {<<>>}

\* A FieldValidation whose Tag is empty: validate.RegisterValidation returns an
\* error for it.
BadValidation == ""

\* What a caller may pass: also a validator whose Register fails, before or after
\* one that registers.
AnyValidators ==
    {<<>>, <<StructValidation>>, <<BadValidation, StructValidation>>,
     <<StructValidation, BadValidation>>}

\* The helpers' state while GetConfig runs.
NoHeap == <<>>

NoCall == [fn |-> "none"]

NoRet == [st |-> "none"]

NoTest == [fn |-> "none"]

\* ---------------------------------------------------------- state machine

NoErr == [kind |-> "nil", field |-> 0, fields |-> <<>>]

NotRead(kind) ==
    [read |-> FALSE, err |-> "nil", errOverwrite |-> "nil",
     base |-> ZeroOf(kind), merged |-> ZeroOf(kind)]

\* A call of GetConfig on a zero target: one field of the target type is drawn
\* from rich, the others from SimpleInputs.
InitCalls(rich, simple, any) ==
    \E k \in 1..NumFields, r \in rich :
    \E s \in [(1..NumFields) \ {k} -> simple],
       e \in (IF HasEnvTag(r.fd) THEN EnvVals ELSE {Unset}),
       v \in (IF any THEN AnyValidators ELSE CallerValidators(r.fd)) :
        LET inp == [i \in 1..NumFields |-> IF i = k THEN r ELSE s[i]]
        IN  /\ schema = [i \in 1..NumFields |-> inp[i].fd]
            /\ validators = v
            /\ heap = NoHeap
            /\ call = NoCall
            /\ ret = NoRet
            /\ pt = NoTest
            /\ config = [i \in 1..NumFields |-> inp[i].cfg]
            /\ environ = [n \in {EnvName} |-> e]
            /\ obj = [i \in 1..NumFields |-> ZeroOf(inp[i].fd.kind)]
            /\ rd = [i \in 1..NumFields |-> NotRead(inp[i].fd.kind)]
            /\ pc = "read"
            /\ idx = 1
            /\ err = NoErr
            /\ registered = <<>>
            /\ ran = {}
            /\ verrs = <<>>
            /\ calls = <<>>

InitWith(rich) == InitCalls(rich, SimpleInputs, FALSE)

Init == InitWith(RichInputs)

\* isRequired := fieldType.Tag.Get("validate") == "required"
isRequiredLeading(fd) == fd.validate # <<>> /\ fd.validate[1] = Rule("required", <<>>)

isRequired(fd) == fd.validate = <<Rule("required", <<>>)>>

\* The required-field check that ends the read loop.
RequiredFaultPrimaryOnly(required, e, errOverwrite) == required /\ e # "nil"

RequiredFaultEither(required, e, errOverwrite) ==
    required /\ (e # "nil" \/ errOverwrite # "nil")

RequiredFault(required, e, errOverwrite) ==
    required /\ e # "nil" /\ errOverwrite # "nil"

\* Where GetConfig goes after field i of the read loop: a required-field fault
\* returns at once, the last field leaves the loop.
afterFieldNoReturn(fault, i) == IF i = NumFields THEN "register" ELSE "read"

afterField(fault, i) ==
    IF fault THEN "done" ELSE IF i = NumFields THEN "register" ELSE "read"

\* The read loop leaves a field without a json tag alone.
SkipField ==
    /\ pc = "read"
    /\ schema[idx].jsonTag = ""
    /\ IF idx = NumFields THEN pc' = "register" /\ idx' = idx
       ELSE pc' = pc /\ idx' = idx + 1
    /\ UNCHANGED <<schema, config, environ, obj, err, rd, registered, ran, verrs>>
    /\ UNCHANGED <<validators, lib, calls>>

\* One iteration of the read loop: the primary read, the override read and merge,
\* the required check.
ReadField ==
    /\ pc = "read"
    /\ schema[idx].jsonTag # ""
    /\ LET fd == schema[idx]
           p  == populateFieldFromConfig(config[idx].primary, fd.kind, obj[idx])
           o  == IF fd.overrideConfigNamespace # ""
                 THEN overwriteFieldFromOverwriteCfg(p.val, config[idx].override, fd.kind)
                 ELSE [val |-> p.val, err |-> "nil"]
       IN  /\ obj' = [obj EXCEPT ![idx] = o.val]
           /\ rd' = [rd EXCEPT ![idx] = [read |-> TRUE, err |-> p.err,
                                         errOverwrite |-> o.err,
                                         base |-> p.val, merged |-> o.val]]
           /\ err' = IF o.err # "panic" /\ RequiredFault(isRequired(fd), p.err, o.err)
                     THEN [kind |-> "read", field |-> idx, fields |-> <<idx>>] ELSE err
           /\ pc' = IF o.err = "panic" THEN "panic"
                    ELSE afterField(RequiredFault(isRequired(fd), p.err, o.err), idx)
           /\ idx' = IF pc' = "read" THEN idx + 1 ELSE idx
    /\ UNCHANGED <<schema, config, environ, registered, ran, verrs>>
    /\ UNCHANGED <<validators, lib, calls>>

\* validator.New(): a validator instance with none of the package's or the
\* caller's rules on it, whatever an earlier instance (old) held.
validatorShared(old) == old

validatorNew(old) == <<>>

\* Validator.Register on the instance: FieldValidation.Register hands the tag to
\* validate.RegisterValidation, which returns an error for an empty tag.
RegisterFails(v) == v = BadValidation

\* registerValidations: the validators are registered in order; the first whose
\* Register returns an error ends the loop.  [reg, ok].
registerValidationsAll(validate, vs) ==
    [reg |-> validate \o SelectSeq(vs, LAMBDA v : ~RegisterFails(v)),
     ok  |-> \A k \in 1..Len(vs) : ~RegisterFails(vs[k])]

registerValidations(validate, vs) ==
    LET bad  == {k \in 1..Len(vs) : RegisterFails(vs[k])}
        stop == IF bad = {} THEN Len(vs) + 1
                ELSE CHOOSE k \in bad : \A j \in bad : k <= j
    IN  [reg |-> validate \o SubSeq(vs, 1, stop - 1), ok |-> bad = {}]

\* The error of a Register, returned as it is.
RegisterErr == [kind |-> "register", field |-> 0, fields |-> <<>>]

\* validator.New(), append(validators, GetValidations(ctx)...), registerValidations.
RegisterValidations ==
    /\ pc = "register"
    /\ LET r == registerValidations(validatorNew(registered), validators \o GetValidations)
       IN  /\ registered' = r.reg
           /\ err' = IF r.ok THEN err ELSE RegisterErr
           /\ pc' = IF r.ok THEN "validate" ELSE "done"
           /\ idx' = IF r.ok THEN 1 ELSE idx
    /\ UNCHANGED <<schema, config, environ, obj, rd, ran, verrs>>
    /\ UNCHANGED <<validators, lib, calls>>

\* The validator's FieldError values of one field.
fieldErrors(i, errs) == [k \in 1..Len(errs) |-> [field |-> i, tag |-> errs[k]]]

\* validate.Struct(obj), one field at a time in declaration order; the
\* struct-level functions run after the last field.
ValidateField ==
    /\ pc = "validate"
    /\ LET r == validateField(schema[idx], obj[idx], environ)
       IN  /\ obj' = [obj EXCEPT ![idx] = r.val]
           /\ ran' = ran \cup {<<idx, k>> : k \in r.ran}
           /\ verrs' = verrs \o fieldErrors(idx, r.errs)
                             \o IF idx = NumFields
                                THEN structLevel(registered, schema, obj')
                                ELSE <<>>
    /\ IF idx = NumFields THEN pc' = "return" /\ idx' = idx
       ELSE pc' = pc /\ idx' = idx + 1
    /\ UNCHANGED <<schema, config, environ, err, rd, registered>>
    /\ UNCHANGED <<validators, lib, calls>>

\* fmt.Errorf("validation error: %w", err): the validator's errors, all of them,
\* in one error.
validationErrorFirst(es) ==
    [kind |-> "validation", field |-> es[1].field, fields |-> <<es[1].field>>]

validationError(es) ==
    [kind |-> "validation", field |-> es[1].field,
     fields |-> [k \in 1..Len(es) |-> es[k].field]]

\* The end of GetConfig: the validation error, or nil.
Return ==
    /\ pc = "return"
    /\ err' = IF verrs = <<>> THEN NoErr ELSE validationError(verrs)
    /\ pc' = "done"
    /\ UNCHANGED <<schema, config, environ, obj, idx, rd, registered, ran, verrs>>
    /\ UNCHANGED <<validators, lib, calls>>

Next == SkipField \/ ReadField \/ RegisterValidations \/ ValidateField \/ Return

Spec == Init /\ [][Next]_vars

\* GetConfig on a target type whose overrideConfigNamespace tag is on a field of
\* any kind.
SpecAnyField == InitWith(AnyFieldInputs) /\ [][Next]_vars

\* The fields of a target type that is resolved more than once.
CallJ ==
    {JAbsent, JObj([region |-> JStr(<<"a">>), project |-> JOmit]),
     JObj([region |-> JOmit, project |-> JStr(<<"p">>)]),
     JObj([region |-> JStr(<<"z">>), project |-> JStr(<<"p">>)])}

CallTags ==
    {<<Rule("default", <<"7">>)>>, <<Rule("default", <<"x">>)>>, <<Rule("env", EnvName)>>,
     <<Rule("required", <<>>)>>}

CallInputs ==
    {Input(WithSub(Field("struct", "key", v, "esc"), sub), j, o) :
        <<v, sub, j, o>> \in StructTags \X {<<>>, OneofTags} \X CallJ \X CallJ}
    \cup {Input(Field("int", "key", v, ""), j, JAbsent) :
            <<v, j>> \in CallTags \X {JAbsent, JNum(Dec(5, 0)), JStr(<<"1", "0">>)}}

CallSimple ==
    {Input(Field("int", "key", <<Rule("default", <<"7">>)>>, ""), JAbsent, JAbsent),
     Input(Field("string", "key", <<Rule("required", <<>>)>>, ""), JAbsent, JAbsent),
     Input(Field("string", "", <<Rule("default", <<"7">>)>>, ""), JAbsent, JAbsent)}

\* What a call that ended leaves to look at.
Ended == [validators |-> validators, obj |-> obj, err |-> err, pc |-> pc,
          registered |-> registered, ran |-> ran]

\* The caller calls GetConfig again, on a new zero target of the same type, under
\* the same configuration and environment, with validators of its choice.
GetConfigAgain ==
    /\ pc \in {"done", "panic"}
    /\ Len(calls) < MaxCalls - 1
    /\ calls' = Append(calls, Ended)
    /\ validators' \in AnyValidators
    /\ obj' = [i \in 1..NumFields |-> ZeroOf(schema[i].kind)]
    /\ rd' = [i \in 1..NumFields |-> NotRead(schema[i].kind)]
    /\ pc' = "read"
    /\ idx' = 1
    /\ err' = NoErr
    /\ ran' = {}
    /\ verrs' = <<>>
    /\ UNCHANGED <<schema, config, environ, registered, lib>>

NextCalls == Next \/ GetConfigAgain

\* GetConfig called several times in a row, with validators of any kind.
SpecCalls == InitCalls(CallInputs, CallSimple, TRUE) /\ [][NextCalls]_vars

\* ------------------------------------------- the helpers: types and values

\* Types as reflect sees them.  A struct value is the tuple of its fields' values,
\* a pointer is the address of a cell of the store, 0 when nil.
IntT == [k |-> "int"]

StringT == [k |-> "string"]

PtrT(elem) == [k |-> "ptr", elem |-> elem]

Fld(name, type, exported) == [name |-> name, type |-> type, exported |-> exported]

StructT(name, fields) == [k |-> "struct", name |-> name, fields |-> fields]

\* struct { V int; W string }
Inner == StructT("Inner", <<Fld("V", IntT, TRUE), Fld("W", StringT, TRUE)>>)

\* struct { X int; In Inner }
Mid == StructT("Mid", <<Fld("X", IntT, TRUE), Fld("In", Inner, TRUE)>>)

\* struct { A int; N Mid; P *Inner }
Outer == StructT("Outer", <<Fld("A", IntT, TRUE), Fld("N", Mid, TRUE),
                            Fld("P", PtrT(Inner), TRUE)>>)

\* struct { A int }
Other == StructT("Other", <<Fld("A", IntT, TRUE)>>)

\* struct { A int; b int }
Hidden == StructT("Hidden", <<Fld("A", IntT, TRUE), Fld("b", IntT, FALSE)>>)

\* reflect.Zero / reflect.New(t).Elem().
RECURSIVE reflectZero(_)
reflectZero(t) ==
    CASE t.k = "int"    -> 0
      [] t.k = "string" -> <<>>
      [] t.k = "ptr"    -> 0
      [] t.k = "struct" -> [i \in 1..Len(t.fields) |-> reflectZero(t.fields[i].type)]

\* An interface{} value: its dynamic type and its value; the nil interface.
Iface(type, v) == [type |-> type, v |-> v]

NilIface == [type |-> [k |-> "nil"], v |-> 0]

\* obj == nil, for an interface{} value.
IsNil(o) == o.type.k = "nil"

Cell(type, val) == [type |-> type, val |-> val]

\* reflect.DeepEqual's view of a value: pointers followed to what they point to.
RECURSIVE Deep(_, _, _)
Deep(h, t, v) ==
    CASE t.k = "struct" -> [i \in 1..Len(t.fields) |-> Deep(h, t.fields[i].type, v[i])]
      [] t.k = "ptr"    -> IF v = 0 THEN <<"nil">> ELSE <<"ref", Deep(h, t.elem, h[v].val)>>
      [] OTHER          -> v

\* ------------------------------------------------------------ mergeObjects

\* isZeroValue of the merger: reflect.DeepEqual with the zero value of the type.
\* For an int, a string and a pointer that is equality with 0, "" and nil.
mergeIsZeroNever(t, v) == FALSE

mergeIsZero(t, v) == v = reflectZero(t)

\* The default case of mergeFields, for a field that is no struct: the value of
\* obj2 if it is non-zero, otherwise the value of obj1. A pointer is such a field,
\* and its value is the address.
mergeLeafKeepPtr(ft, v1, v2) ==
    IF ft.k = "ptr" /\ v1 # reflectZero(ft) THEN v1
    ELSE IF ~mergeIsZero(ft, v2) THEN v2 ELSE v1

mergeLeafExclusive(ft, v1, v2) ==
    IF mergeIsZero(ft, v2) THEN v1
    ELSE IF mergeIsZero(ft, v1) THEN v2 ELSE reflectZero(ft)

mergeLeaf(ft, v1, v2) == IF ~mergeIsZero(ft, v2) THEN v2 ELSE v1

\* mergeFields: [val: newVal afterwards, err].
mergeFieldsFlat(t1, val1, t2, val2, tn, newVal) ==
    [val |-> [i \in 1..Len(t1.fields) |->
                IF ~mergeIsZero(t1.fields[i].type, val2[i]) THEN val2[i] ELSE val1[i]],
     err |-> "nil"]

RECURSIVE mergeFields(_, _, _, _, _, _)
RECURSIVE mergeLoop(_, _, _, _, _)
mergeFields(t1, val1, t2, val2, tn, newVal) ==
    IF t1 # t2 \/ t1 # tn THEN [val |-> newVal, err |-> "ErrMismatchedFields"]
    ELSE mergeLoop(t1, val1, val2, newVal, 1)

\* The loop of mergeFields, from field i on.
mergeLoop(t, val1, val2, newVal, i) ==
    IF i > Len(t.fields) THEN [val |-> newVal, err |-> "nil"]
    ELSE LET ft == t.fields[i].type
         IN  IF ~t.fields[i].exported
             THEN [val |-> newVal, err |-> "ErrFieldNotSettable"]
             ELSE IF ft.k = "struct"
             THEN LET n == mergeFields(ft, val1[i], ft, val2[i], ft, reflectZero(ft))
                  IN  IF n.err # "nil" THEN [val |-> newVal, err |-> n.err]
                      ELSE mergeLoop(t, val1, val2, [newVal EXCEPT ![i] = n.val], i + 1)
             ELSE mergeLoop(t, val1, val2,
                            [newVal EXCEPT ![i] = mergeLeaf(ft, val1[i], val2[i])],
                            i + 1)

\* mergeObjects: [heap afterwards, ret, err]; err "panic" stands for the panic of
\* reflect on the Elem() of a nil pointer (Type) and on a value that is no struct
\* (NumField).
mergeObjectsInPlace(h, obj1, obj2) ==
    LET m == mergeFields(obj1.type.elem, h[obj1.v].val, obj1.type.elem, h[obj2.v].val,
                         obj1.type.elem, h[obj1.v].val)
    IN  IF IsNil(obj1) \/ IsNil(obj2) \/ obj1.type # obj2.type
           \/ obj1.type.k # "ptr" \/ obj1.v = 0 \/ obj2.v = 0
           \/ obj1.type.elem.k # "struct"
        THEN [heap |-> h, ret |-> NilIface, err |-> "ErrNilObjects"]
        ELSE [heap |-> [h EXCEPT ![obj1.v].val = m.val], ret |-> obj1, err |-> m.err]

mergeObjects(h, obj1, obj2) ==
    IF IsNil(obj1) \/ IsNil(obj2)
    THEN [heap |-> h, ret |-> NilIface, err |-> "ErrNilObjects"]
    ELSE IF obj1.type # obj2.type
    THEN [heap |-> h, ret |-> NilIface, err |-> "ErrDifferentTypes"]
    ELSE IF obj1.type.k # "ptr"
    THEN [heap |-> h, ret |-> NilIface, err |-> "ErrNonPointer"]
    ELSE LET elem == obj1.type.elem
             a    == Len(h) + 1
             h1   == Append(h, Cell(elem, reflectZero(elem)))
         IN  IF obj1.v = 0 \/ obj2.v = 0 \/ elem.k # "struct"
             THEN [heap |-> h1, ret |-> NilIface, err |-> "panic"]
             ELSE LET m  == mergeFields(elem, h[obj1.v].val, elem, h[obj2.v].val,
                                        elem, h1[a].val)
                      h2 == [h1 EXCEPT ![a].val = m.val]
                  IN  IF m.err # "nil" THEN [heap |-> h2, ret |-> NilIface, err |-> m.err]
                      ELSE [heap |-> h2, ret |-> Iface(obj1.type, a), err |-> "nil"]

\* ----------------------------------------------------- the helpers' inputs

\* The values an operand's fields take: the base's from 0, 1, "a"; the override's
\* from 0, 2, "b".
OuterVals(ints, strs, ptrs) ==
    {<<a, <<x, <<v, w>>>>, p>> : a \in ints, x \in ints, v \in ints, w \in strs, p \in ptrs}

BaseVals == OuterVals({0, 1}, {<<>>, <<"a">>}, {0, 3})

OverVals == OuterVals({0, 2}, {<<>>, <<"b">>}, {0, 3, 4})

\* The store before a call: the two Outer operands at 1 and 2, what their P fields
\* may point to at 3 and 4, then an Other, an int and a Hidden.
StoreOf(val1, val2) ==
    <<Cell(Outer, val1), Cell(Outer, val2),
      Cell(Inner, <<1, <<"a">>>>), Cell(Inner, <<2, <<>>>>),
      Cell(Other, <<1>>), Cell(IntT, 5), Cell(Hidden, <<1, 1>>),
      Cell(Hidden, reflectZero(Hidden))>>

SomeBase == <<1, <<0, <<1, <<>>>>>>, 3>>

SomeOver == <<0, <<2, <<0, <<"b">>>>>>, 4>>

\* Operands of every shape: the nil interface, structs passed by value, pointers
\* to structs of three types, a nil pointer, a pointer to an int, a pointer to a
\* zero Hidden.
AnyOperands ==
    <<NilIface, Iface(Outer, SomeBase), Iface(Other, <<1>>),
      Iface(PtrT(Outer), 1), Iface(PtrT(Outer), 2), Iface(PtrT(Outer), 0),
      Iface(PtrT(Other), 5), Iface(PtrT(IntT), 6), Iface(PtrT(Hidden), 7),
      Iface(PtrT(Hidden), 8)>>

MergeCall(h, obj1, obj2) == [fn |-> "mergeObjects", obj1 |-> obj1, obj2 |-> obj2, heap0 |-> h]

CloneCall(h, src) == [fn |-> "CloneStruct", src |-> src, heap0 |-> h]

\* CloneStruct's other sources: a Hidden by value and by pointer, a nil pointer, a
\* value that is no struct.
OddSources ==
    <<Iface(Hidden, <<1, 1>>), Iface(PtrT(Hidden), 7), Iface(PtrT(Outer), 0), Iface(IntT, 5)>>

\* The document under the field's key in the override namespace: absent, or an
\* object with keys for A and P (V and W inside), some of the wrong type.
OverrideDocs ==
    <<JAbsent,
      JObj(<<JNum(Dec(2, 0)), JOmit, JOmit>>),
      JObj(<<JStr(<<"x">>), JOmit, JOmit>>),
      JObj(<<JOmit, JOmit, JObj(<<JNum(Dec(9, 0)), JOmit>>)>>),
      JObj(<<JNum(Dec(2, 0)), JOmit, JObj(<<JNum(Dec(9, 0)), JStr(<<"b">>)>>)>>),
      JObj(<<JStr(<<"x">>), JOmit, JObj(<<JNum(Dec(9, 0)), JOmit>>)>>),
      JObj(<<JOmit, JOmit, JObj(<<JNum(Dec(9, 0)), JNum(Dec(7, 0))>>)>>),
      JObj(<<JOmit, JOmit, JStr(<<"x">>)>>),
      JStr(<<"x">>)>>

OverwriteCall(h, field, j) ==
    [fn |-> "overwriteFieldFromOverwriteCfg", field |-> field, j |-> j, heap0 |-> h]

\* ---------------------------------------------------- the helpers' calls

\* GetConfig is not running.
NoGetConfig ==
    /\ schema = <<>> /\ config = <<>> /\ environ = <<>> /\ obj = <<>> /\ rd = <<>>
    /\ pc = "idle" /\ idx = 0 /\ err = NoErr
    /\ registered = <<>> /\ ran = {} /\ verrs = <<>> /\ validators = <<>>
    /\ calls = <<>>

\* A call of mergeObjects on two Outer operands or on operands of any shape, or a
\* call of CloneStruct on an Outer, by value or by pointer, or on another source.
InitHelpers ==
    /\ NoGetConfig
    /\ \/ \E v1 \in BaseVals, v2 \in OverVals :
            call = MergeCall(StoreOf(v1, v2), Iface(PtrT(Outer), 1), Iface(PtrT(Outer), 2))
       \/ \E n1, n2 \in 1..Len(AnyOperands) :
            call = MergeCall(StoreOf(SomeBase, SomeOver), AnyOperands[n1], AnyOperands[n2])
       \/ \E v \in BaseVals :
            \/ call = CloneCall(StoreOf(v, SomeOver), Iface(Outer, v))
            \/ call = CloneCall(StoreOf(v, SomeOver), Iface(PtrT(Outer), 1))
       \/ \E n \in 1..Len(OddSources) :
            call = CloneCall(StoreOf(SomeBase, SomeOver), OddSources[n])
       \/ \E v \in BaseVals, n \in 1..Len(OverrideDocs) :
            call = OverwriteCall(StoreOf(v, SomeOver), 1, OverrideDocs[n])
    /\ heap = call.heap0
    /\ ret = NoRet
    /\ pt = NoTest

Returned0(v, e) == [st |-> IF e = "panic" THEN "panic" ELSE "returned", v |-> v, err |-> e]

\* A call of mergeObjects.
MergeObjects ==
    /\ call.fn = "mergeObjects" /\ ret.st = "none"
    /\ LET r == mergeObjects(heap, call.obj1, call.obj2)
       IN  heap' = r.heap /\ ret' = Returned0(r.ret, r.err)
    /\ UNCHANGED <<call, gc, pt>>

\* The leaves of a struct type: the paths (field positions) to its fields that are
\* no structs, at every depth.
RECURSIVE LeafPaths(_)
LeafPaths(t) ==
    UNION {IF t.fields[i].type.k = "struct"
           THEN {<<i>> \o q : q \in LeafPaths(t.fields[i].type)}
           ELSE {<<i>>} : i \in 1..Len(t.fields)}

RECURSIVE At(_, _)
At(v, path) == IF path = <<>> THEN v ELSE At(v[Head(path)], Tail(path))

RECURSIVE TypeAt(_, _)
TypeAt(t, path) == IF path = <<>> THEN t ELSE TypeAt(t.fields[Head(path)].type, Tail(path))

RECURSIVE Put(_, _, _)
Put(v, path, x) ==
    IF path = <<>> THEN x ELSE [v EXCEPT ![Head(path)] = Put(v[Head(path)], Tail(path), x)]

\* A value of the type other than v.
Changed(t, v) ==
    CASE t.k = "int"    -> 9
      [] t.k = "string" -> <<"z">>
      [] t.k = "ptr"    -> IF v = 0 THEN 4 ELSE 0

\* A call of CloneStruct: the source is dereferenced when it is a pointer, the copy
\* is a new cell, the result a pointer to it.  Type() on the Elem() of a nil pointer
\* and NumField() on a value that is no struct panic.
CloneStructCall ==
    /\ call.fn = "CloneStruct" /\ ret.st = "none"
    /\ LET src   == call.src
           isPtr == src.type.k = "ptr"
           t     == IF isPtr THEN src.type.elem ELSE src.type
       IN  IF (isPtr /\ src.v = 0) \/ t.k # "struct"
           THEN heap' = heap /\ ret' = Returned0(NilIface, "panic")
           ELSE LET srcVal == IF isPtr THEN heap[src.v].val ELSE src.v
                    dst    == CloneStruct(srcVal, reflectZero(t),
                                          [i \in 1..Len(t.fields) |-> t.fields[i].exported])
                IN  /\ heap' = Append(heap, Cell(t, dst))
                    /\ ret' = Returned0(Iface(PtrT(t), Len(heap) + 1), "nil")
    /\ UNCHANGED <<call, gc, pt>>

\* The caller writes once through the copy CloneStruct returned: to one of its
\* leaves, or to a leaf of what one of its pointer fields points to.
WriteCopy ==
    /\ call.fn = "CloneStruct" /\ ret.st = "returned"
    /\ LET a == ret.v.v
           t == heap[a].type
       IN  \E path \in LeafPaths(t) :
            \/ heap' = [heap EXCEPT ![a].val =
                            Put(@, path, Changed(TypeAt(t, path), At(@, path)))]
            \/ /\ TypeAt(t, path).k = "ptr" /\ At(heap[a].val, path) # 0
               /\ \E q \in LeafPaths(TypeAt(t, path).elem) :
                    heap' = [heap EXCEPT ![At(heap[a].val, path)].val =
                                Put(@, q, Changed(TypeAt(TypeAt(t, path).elem, q), At(@, q)))]
    /\ ret' = [ret EXCEPT !.st = "written"]
    /\ UNCHANGED <<call, gc, pt>>

\* json.Unmarshal into a value of type t held in the store.  A key that is absent
\* leaves its field alone; a value of the wrong JSON type is skipped and reported
\* after the rest was decoded; a pointer field that is not nil is decoded into
\* what it points to, a nil one into a new cell.  An object holds one value per
\* field, in field order.  [heap, val, err].
RECURSIVE unmarshalValue(_, _, _, _)
RECURSIVE unmarshalFields(_, _, _, _, _)
unmarshalValue(h, t, v, j) ==
    CASE t.k = "int" ->
            IF j.t = "num" /\ j.n.e = 0 THEN [heap |-> h, val |-> j.n.m, err |-> "nil"]
            ELSE [heap |-> h, val |-> v, err |-> "decode"]
      [] t.k = "string" ->
            IF j.t = "str" THEN [heap |-> h, val |-> j.s, err |-> "nil"]
            ELSE [heap |-> h, val |-> v, err |-> "decode"]
      [] t.k = "struct" ->
            IF j.t = "obj" THEN unmarshalFields(h, t, v, j.o, 1)
            ELSE [heap |-> h, val |-> v, err |-> "decode"]
      [] t.k = "ptr" ->
            LET a  == IF v = 0 THEN Len(h) + 1 ELSE v
                h1 == IF v = 0 THEN Append(h, Cell(t.elem, reflectZero(t.elem))) ELSE h
                r  == unmarshalValue(h1, t.elem, h1[a].val, j)
            IN  [heap |-> [r.heap EXCEPT ![a].val = r.val], val |-> a, err |-> r.err]

unmarshalFields(h, t, v, o, i) ==
    IF i > Len(t.fields) THEN [heap |-> h, val |-> v, err |-> "nil"]
    ELSE IF o[i].t = "omit" THEN unmarshalFields(h, t, v, o, i + 1)
    ELSE LET r    == unmarshalValue(h, t.fields[i].type, v[i], o[i])
             rest == unmarshalFields(r.heap, t, [v EXCEPT ![i] = r.val], o, i + 1)
         IN  [heap |-> rest.heap, val |-> rest.val,
              err  |-> IF r.err # "nil" THEN r.err ELSE rest.err]

\* mergo.Merge(dst, src, mergo.WithOverride) on values held in the store: struct
\* fields are merged one by one; a nil source pointer changes nothing, a nil
\* destination pointer takes the source's, two pointers are merged through; any
\* other field takes the source's value when that is not empty.  [heap, val].
RECURSIVE deepMerge(_, _, _, _)
RECURSIVE deepMergeFields(_, _, _, _, _)
deepMerge(h, t, dst, src) ==
    CASE t.k = "struct" -> deepMergeFields(h, t, dst, src, 1)
      [] t.k = "ptr" ->
            IF src = 0 THEN [heap |-> h, val |-> dst]
            ELSE IF dst = 0 THEN [heap |-> h, val |-> src]
            ELSE LET r == deepMerge(h, t.elem, h[dst].val, h[src].val)
                 IN  [heap |-> [r.heap EXCEPT ![dst].val = r.val], val |-> dst]
      [] OTHER -> [heap |-> h, val |-> IF src # reflectZero(t) THEN src ELSE dst]

deepMergeFields(h, t, dst, src, i) ==
    IF i > Len(t.fields) THEN [heap |-> h, val |-> dst]
    ELSE LET r == deepMerge(h, t.fields[i].type, dst[i], src[i])
         IN  deepMergeFields(r.heap, t, [dst EXCEPT ![i] = r.val], src, i + 1)

\* overwriteFieldFromOverwriteCfg on a struct field held at address field: the
\* clone is a new cell, the override document is decoded into it, and the clone is
\* merged into the field.  [heap, err].
overwriteField(h, field, j) ==
    LET t  == h[field].type
        a  == Len(h) + 1
        h1 == Append(h, Cell(t, CloneStruct(h[field].val, reflectZero(t),
                                            [i \in 1..Len(t.fields) |-> t.fields[i].exported])))
    IN  IF j.t = "absent" THEN [heap |-> h1, err |-> "missing"]
        ELSE LET r  == unmarshalValue(h1, t, h1[a].val, j)
                 h2 == [r.heap EXCEPT ![a].val = r.val]
             IN  IF r.err # "nil" THEN [heap |-> h2, err |-> r.err]
                 ELSE LET m == deepMerge(h2, t, h2[field].val, h2[a].val)
                      IN  [heap |-> [m.heap EXCEPT ![field].val = m.val], err |-> "nil"]

\* A call of overwriteFieldFromOverwriteCfg.
OverwriteField ==
    /\ call.fn = "overwriteFieldFromOverwriteCfg" /\ ret.st = "none"
    /\ LET r == overwriteField(heap, call.field, call.j)
       IN  heap' = r.heap /\ ret' = Returned0(NilIface, r.err)
    /\ UNCHANGED <<call, gc, pt>>

NextHelpers == MergeObjects \/ CloneStructCall \/ WriteCopy \/ OverwriteField

SpecHelpers == InitHelpers /\ [][NextHelpers]_vars

\* ------------------------------------------------------------- pulumitest

\* A Go value as reflect.DeepEqual sees it: its type (a pointer type is "*" and
\* then what it points to), whether it is nil, and what it holds (what it points
\* to holds, for a pointer).
GoVal(type, nil, elems) == [type |-> type, nil |-> nil, elems |-> elems]

\* The nil interface.
NilValue == GoVal(<<"nil">>, TRUE, <<>>)

\* Strings, pointers to them, a pointer to such a pointer, nil pointers of two
\* types.
StringVals ==
    {GoVal(t, FALSE, <<s>>) :
        t \in {<<"string">>, <<"*", "string">>}, s \in {"", "123"}}
    \cup {GoVal(<<"*", "*", "string">>, FALSE, <<"123">>),
          GoVal(<<"*", "string">>, TRUE, <<>>), GoVal(<<"*", "int">>, TRUE, <<>>)}

\* Maps and arrays of one type: nil, empty, and of one element with two values.
ContainerVals(t) ==
    {GoVal(<<t>>, TRUE, <<>>)}
    \cup {GoVal(<<t>>, FALSE, e) : e \in {<<>>, <<"key=value">>, <<"key=">>}}

Helpers ==
    {"AssertStringOutputEqual", "AssertMapEqual", "AssertStringMapEqual", "AssertArrayEqual"}

\* The type of expectedValue and actualValue in each helper.
TargetType(fn) ==
    CASE fn = "AssertStringOutputEqual" -> "interface {}"
      [] fn = "AssertMapEqual"          -> "map[string]interface {}"
      [] fn = "AssertStringMapEqual"    -> "map[string]string"
      [] fn = "AssertArrayEqual"        -> "[]interface {}"

\* var expectedValue, actualValue: the zero value of the type.
zeroTarget(fn) ==
    IF fn = "AssertStringOutputEqual" THEN NilValue ELSE GoVal(<<TargetType(fn)>>, TRUE, <<>>)

\* What an output of the helper's parameter type resolves to.
ResolvedVals(fn) ==
    IF fn = "AssertStringOutputEqual" THEN StringVals ELSE ContainerVals(TargetType(fn))

\* A pulumi output: resolved to v, pending (it resolves to v or is rejected
\* later, or stays pending), or broken (ApplyT on it panics: a nil Output).
Out(st, v) == [st |-> st, v |-> v]

Outputs(fn) ==
    {Out(st, v) : st \in {"resolved", "pending"}, v \in ResolvedVals(fn)}
    \cup {Out("broken", NilValue)}

InitTest ==
    /\ NoGetConfig
    /\ heap = NoHeap /\ call = NoCall /\ ret = NoRet
    /\ \E fn \in Helpers : \E expected, actual \in Outputs(fn) :
            pt = [fn |-> fn, out |-> <<expected, actual>>, main |-> "start",
                  go |-> <<"none", "none">>, applied |-> <<FALSE, FALSE>>,
                  invoked |-> <<FALSE, FALSE>>, wg |-> 0,
                  target |-> <<zeroTarget(fn), zeroTarget(fn)>>, failed |-> FALSE]

\* getPointerValue: the value under the pointers, nil for a nil pointer. The
\* values here are never the nil interface, on which rv.Interface() panics.
getPointerValueKept(v) == v

RECURSIVE getPointerValue(_)
getPointerValue(v) ==
    IF Head(v.type) # "*" THEN v
    ELSE IF v.nil THEN NilValue
    ELSE getPointerValue([v EXCEPT !.type = Tail(v.type)])

\* testify's ObjectsAreEqual: == when either is the nil interface, else
\* reflect.DeepEqual (neither is a []byte).
ObjectsAreEqual(expected, actual) == expected = actual

\* The deferred recover of applyFunc: it logs, and nothing else; the counter of
\* the WaitGroup afterwards.
recoverLogDone(wg) == wg - 1

recoverLog(wg) == wg

\* wg.Add(2); go applyFunc(expected, ...); go applyFunc(actual, ...)
AddAndGo ==
    /\ pt.fn # "none" /\ pt.main = "start"
    /\ pt' = [pt EXCEPT !.wg = 2, !.go = <<"apply", "apply">>, !.main = "wait"]
    /\ UNCHANGED <<gc, heap, call, ret>>

\* applyFunc in goroutine i: output.ApplyT(...) registers the callback and
\* returns, or panics, and then the deferred function recovers.
ApplyFunc(i) ==
    /\ pt.fn # "none" /\ pt.go[i] = "apply"
    /\ pt' = IF pt.out[i].st = "broken"
             THEN [pt EXCEPT !.go[i] = "done", !.wg = recoverLog(pt.wg)]
             ELSE [pt EXCEPT !.go[i] = "done", !.applied[i] = TRUE]
    /\ UNCHANGED <<gc, heap, call, ret>>

\* The output of goroutine i settles: it resolves, or it is rejected (or is
\* unknown), and then its callback is never invoked.
Settle(i) ==
    /\ pt.fn # "none" /\ pt.out[i].st = "pending"
    /\ \E st \in {"resolved", "rejected"} : pt' = [pt EXCEPT !.out[i].st = st]
    /\ UNCHANGED <<gc, heap, call, ret>>

\* The callback given to ApplyT, invoked with the resolved value:
\* defer wg.Done(); *target = v, or getPointerValue(v) in AssertStringOutputEqual.
Callback(i) ==
    /\ pt.fn # "none" /\ pt.applied[i] /\ ~pt.invoked[i] /\ pt.out[i].st = "resolved"
    /\ pt' = [pt EXCEPT !.invoked[i] = TRUE,
                        !.target[i] = IF pt.fn = "AssertStringOutputEqual"
                                      THEN getPointerValue(pt.out[i].v)
                                      ELSE pt.out[i].v,
                        !.wg = pt.wg - 1]
    /\ UNCHANGED <<gc, heap, call, ret>>

\* wg.Wait() returns.
Wait ==
    /\ pt.fn # "none" /\ pt.main = "wait" /\ pt.wg = 0
    /\ pt' = [pt EXCEPT !.main = "compare"]
    /\ UNCHANGED <<gc, heap, call, ret>>

\* assert.Equal(t, expectedValue, actualValue, msgAndArgs...), and the return.
Equal ==
    /\ pt.fn # "none" /\ pt.main = "compare"
    /\ pt' = [pt EXCEPT !.failed = ~ObjectsAreEqual(pt.target[1], pt.target[2]),
                        !.main = "returned"]
    /\ UNCHANGED <<gc, heap, call, ret>>

NextTest ==
    \/ AddAndGo
    \/ \E i \in 1..2 : ApplyFunc(i) \/ Settle(i) \/ Callback(i)
    \/ Wait
    \/ Equal

SpecTest == InitTest /\ [][NextTest]_vars

\* ------------------------------------------------- what the config holds

HasOverride(i) == schema[i].overrideConfigNamespace # ""

\* The stored value j is present and of the JSON type a field of this kind takes.
Decodes(kind, j) ==
    CASE kind = "string" -> j.t = "str"
      [] kind = "int"    -> j.t = "num" /\ j.n.e = 0
      [] kind = "uint"   -> j.t = "num" /\ j.n.e = 0 /\ j.n.m >= 0
      [] kind = "float"  -> j.t = "num"
      [] kind = "bool"   -> j.t = "bool"
      [] kind = "struct" -> j.t = "obj" /\ \A l \in Leaves : j.o[l].t \in {"omit", "str"}
      [] kind = "ptr"    -> j.t = "obj" /\ \A l \in Leaves : j.o[l].t \in {"omit", "str"}

Undecodable(kind, j) == j.t # "absent" /\ ~Decodes(kind, j)

\* The text a stored struct value supplies for a sub-field, <<>> when it supplies none.
LeafOf(j, l) == IF j.t = "obj" /\ j.o[l].t = "str" THEN j.o[l].s ELSE <<>>

PrimaryOK(i) == Decodes(schema[i].kind, config[i].primary)

OverrideOK(i) == HasOverride(i) /\ Decodes(schema[i].kind, config[i].override)

StructWithOverride(i) == schema[i].kind = "struct" /\ HasOverride(i)

ReadErrorAt(i) == err.kind = "read" /\ err.field = i

\* ------------------------------------------------------------------ claims

\* C1 as stated: for a struct field with an override namespace, after the read/merge
\* step every sub-field the override value sets to a non-zero value holds that value.
C1_OverrideAlwaysWins ==
    \A i \in 1..NumFields : \A l \in Leaves :
        (StructWithOverride(i) /\ rd[i].read /\ LeafOf(config[i].override, l) # <<>>)
            => obj[i][l] = LeafOf(config[i].override, l)

\* C1 amended: for a struct field with an override namespace, after the read/merge
\* step every sub-field equals the override's value when the override value decodes
\* and sets the sub-field to a non-zero value, and the primary namespace's value
\* otherwise (override absent, sub-field omitted or zero, or override undecodable).
C1_OverridePrecedence ==
    \A i \in 1..NumFields : \A l \in Leaves :
        (StructWithOverride(i) /\ rd[i].read)
            => obj[i][l] = IF OverrideOK(i) /\ LeafOf(config[i].override, l) # <<>>
                           THEN LeafOf(config[i].override, l)
                           ELSE LeafOf(config[i].primary, l)

\* A partial override: region from the override, project kept from the primary.
C1_Witness ==
    \E i \in 1..NumFields :
        /\ StructWithOverride(i) /\ rd[i].read
        /\ LeafOf(config[i].primary, "region") = <<"a">>
        /\ LeafOf(config[i].primary, "project") = <<"p">>
        /\ config[i].override = JObj([region |-> JStr(<<"b">>), project |-> JOmit])
        /\ obj[i] = [region |-> <<"b">>, project |-> <<"p">>]

\* C2: a required field whose primary value is absent, with no override namespace
\* or with a failed override sequence, makes GetConfig return the read error
\* naming the field.
C2_RequiredFieldMissing ==
    \A i \in 1..NumFields :
        (/\ rd[i].read
         /\ isRequired(schema[i])
         /\ config[i].primary = JAbsent
         /\ (~HasOverride(i) \/ ~OverrideOK(i)))
            => pc = "done" /\ ReadErrorAt(i)

\* C3: when exactly one of the primary read and the override read+merge of a
\* required field succeeds, no required-field error is raised for it, and the field
\* holds the value of the path that succeeded.
C3_EitherPathSatisfies ==
    \A i \in 1..NumFields :
        (rd[i].read /\ isRequired(schema[i]) /\ (PrimaryOK(i) # OverrideOK(i)))
            => /\ ~ReadErrorAt(i)
               /\ (err.kind # "read" /\ pc = "done"
                    => registered = validators \o GetValidations)
               /\ (PrimaryOK(i) /\ schema[i].kind # "struct")
                    => obj[i] = UnmarshalScalar(schema[i].kind, ZeroOf(schema[i].kind),
                                                config[i].primary).val
               /\ (PrimaryOK(i) /\ schema[i].kind = "struct")
                    => \A l \in Leaves : obj[i][l] = LeafOf(config[i].primary, l)
               /\ (OverrideOK(i) /\ config[i].primary = JAbsent)
                    => \A l \in Leaves : obj[i][l] = LeafOf(config[i].override, l)
               /\ OverrideOK(i)
                    => \A l \in Leaves :
                         LeafOf(config[i].override, l) # <<>>
                            => obj[i][l] = LeafOf(config[i].override, l)

\* The primary key is absent, the override key present: the override value, no error.
C3_Witness ==
    \E i \in 1..NumFields :
        /\ isRequired(schema[i]) /\ HasOverride(i)
        /\ config[i].primary = JAbsent
        /\ config[i].override = JObj([region |-> JStr(<<"b">>), project |-> JOmit])
        /\ pc = "done" /\ err = NoErr
        /\ obj[i] = [region |-> <<"b">>, project |-> <<>>]

\* C4: when a required-field fault is raised for field i, GetConfig has returned:
\* no later field was read or written, no validator was registered, no rule ran.
C4_FailFast ==
    err.kind = "read"
        => /\ pc = "done"
           /\ \A j \in 1..NumFields :
                j > err.field => ~rd[j].read /\ obj[j] = ZeroOf(schema[j].kind)
           /\ registered = <<>>
           /\ ran = {}
           /\ verrs = <<>>

\* The fault is at field 1, and field 2's key is present in the configuration.
C4_Witness ==
    /\ err.kind = "read" /\ err.field = 1
    /\ config[2].primary = JNum(Dec(5, 0))
    /\ obj[2] = 0

\* --------------------------------------------------- the rules of a field

DefaultKinds == {"string", "int", "uint", "float"}

TagsOf(i) == schema[i].validate

HasTag(i, tag) == \E k \in 1..Len(TagsOf(i)) : TagsOf(i)[k].tag = tag

ParamOf(i, tag) ==
    TagsOf(i)[CHOOSE k \in 1..Len(TagsOf(i)) : TagsOf(i)[k].tag = tag].param

FirstTag(i, tag) == TagsOf(i) # <<>> /\ TagsOf(i)[1].tag = tag

\* A text read as a value of the kind: the text itself for a string, base-10
\* int64 / uint64, float64, or a boolean word.
LiteralAs(kind, s) ==
    CASE kind = "string" -> [ok |-> TRUE, v |-> s]
      [] kind = "int"    -> ParseInt(s)
      [] kind = "uint"   -> ParseUint(s)
      [] kind = "float"  -> ParseFloat(s)
      [] kind = "bool"   -> ParseBool(s)

DefaultOf(i) == LiteralAs(schema[i].kind, ParamOf(i, "default"))

EnvOf(i) == LookupEnv(environ, ParamOf(i, "env"))

EnvValueOf(i) == LiteralAs(schema[i].kind, EnvOf(i).val)

\* The variable named by field i's env tag is present, non-empty and parses.
EnvUsable(i) == EnvOf(i).set /\ EnvOf(i).val # <<>> /\ EnvValueOf(i).ok

Zero(i) == ZeroOf(schema[i].kind)

\* The validator has finished with field i.
Validated(i) ==
    \/ pc = "validate" /\ idx > i
    \/ pc = "return"
    \/ pc = "done" /\ err.kind # "read"

FailedAt(i) == \E k \in 1..Len(verrs) : verrs[k].field = i

\* C5: for a string, signed, unsigned or float field tagged default=D, a non-zero
\* value left by the read/merge step is never overwritten; when that value is zero
\* and D reads as a value of the field's type, the field is set to it and the rule
\* reports no error.
C5_DefaultOnlyOnZero ==
    \A i \in 1..NumFields :
        (schema[i].kind \in DefaultKinds /\ HasTag(i, "default") /\ Validated(i))
            => /\ rd[i].merged # Zero(i) => obj[i] = rd[i].merged
               /\ (rd[i].merged = Zero(i) /\ FirstTag(i, "default") /\ DefaultOf(i).ok)
                    => /\ ~FailedAt(i)
                       /\ (Len(TagsOf(i)) = 1 \/ DefaultOf(i).v # Zero(i))
                            => obj[i] = DefaultOf(i).v

\* No source sets the field: Count int `default=7` resolves to 7, no error.
C5_Witness ==
    \E i \in 1..NumFields :
        /\ schema[i].kind = "int" /\ TagsOf(i) = <<Rule("default", <<"7">>)>>
        /\ schema[i].jsonTag # "" /\ config[i].primary = JAbsent
        /\ pc = "done" /\ err = NoErr
        /\ obj[i] = 7

\* C6: the env rule leaves a value set by the primary source, the override merge
\* or an earlier default rule alone; it changes a field only when the field is
\* still zero and the variable is present and non-empty, and then the field is
\* the variable's text read per the field's kind.
C6_EnvLastResort ==
    \A i \in 1..NumFields :
        (HasTag(i, "env") /\ Validated(i))
            => /\ rd[i].merged # Zero(i) => obj[i] = rd[i].merged
               /\ (/\ rd[i].merged = Zero(i) /\ FirstTag(i, "default")
                   /\ schema[i].kind \in DefaultKinds
                   /\ DefaultOf(i).ok /\ DefaultOf(i).v # Zero(i))
                    => obj[i] = DefaultOf(i).v
               /\ (/\ rd[i].merged = Zero(i) /\ FirstTag(i, "env") /\ EnvUsable(i)
                   /\ (Len(TagsOf(i)) = 1 \/ EnvValueOf(i).v # Zero(i)))
                    => obj[i] = EnvValueOf(i).v
               /\ (Len(TagsOf(i)) = 1 /\ obj[i] # rd[i].merged)
                    => /\ rd[i].merged = Zero(i)
                       /\ EnvOf(i).set /\ EnvOf(i).val # <<>>
                       /\ obj[i] = EnvValueOf(i).v

\* No source sets the field and the variable holds "9": the int field resolves to 9.
C6_Witness ==
    \E i \in 1..NumFields :
        /\ schema[i].kind = "int" /\ TagsOf(i) = <<Rule("env", EnvName)>>
        /\ config[i].primary = JAbsent
        /\ EnvOf(i).val = <<"9">>
        /\ pc = "done" /\ err = NoErr
        /\ obj[i] = 9

BothRules(i) ==
    /\ schema[i].kind \in DefaultKinds
    /\ Len(TagsOf(i)) = 2 /\ HasTag(i, "default") /\ HasTag(i, "env")
    /\ DefaultOf(i).ok /\ DefaultOf(i).v # Zero(i)

\* C8 as stated: a field with a default rule and an env rule that is zero after the
\* read/merge step resolves to the default literal, whichever rule is declared first.
C8_DefaultBeforeEnvAnyOrder ==
    \A i \in 1..NumFields :
        (BothRules(i) /\ rd[i].merged = Zero(i) /\ Validated(i))
            => obj[i] = DefaultOf(i).v

\* C8 amended: of a default rule and an env rule on a field that is zero after the
\* read/merge step, the rule declared first wins: default first gives the default
\* literal; env first gives the variable's value when it is present, non-empty,
\* parsable and non-zero, and the default literal otherwise.
C8_DeclaredFirstWins ==
    \A i \in 1..NumFields :
        (BothRules(i) /\ rd[i].merged = Zero(i) /\ Validated(i))
            => obj[i] = IF FirstTag(i, "env") /\ EnvUsable(i) /\ EnvValueOf(i).v # Zero(i)
                        THEN EnvValueOf(i).v
                        ELSE DefaultOf(i).v

\* `env=E,default=7` with E holding "9": the field resolves to 9.
C8_Witness ==
    \E i \in 1..NumFields :
        /\ schema[i].kind = "int"
        /\ TagsOf(i) = <<Rule("env", EnvName), Rule("default", <<"7">>)>>
        /\ rd[i].merged = 0
        /\ EnvOf(i).val = <<"9">>
        /\ pc = "done" /\ err = NoErr
        /\ obj[i] = 9

HasDecodeError(i) ==
    \/ Undecodable(schema[i].kind, config[i].primary)
    \/ HasOverride(i) /\ Undecodable(schema[i].kind, config[i].override)

\* C9 as stated: whenever a stored value cannot be decoded into the field's type,
\* in the primary or the override namespace, GetConfig returns an error.
C9_DecodeErrorAlwaysSurfaced ==
    \A i \in 1..NumFields :
        (rd[i].read /\ HasDecodeError(i) /\ pc = "done") => err # NoErr

\* C9 amended: a decode error is returned by GetConfig only for a field whose
\* validate tag is exactly `required`, that has an override namespace, and whose
\* primary read and override sequence both failed; otherwise it is dropped and the
\* read loop goes on.
C9_DecodeErrorSurfacedWhenBothFail ==
    \A i \in 1..NumFields :
        (rd[i].read /\ HasDecodeError(i))
            => /\ ReadErrorAt(i) <=> /\ isRequired(schema[i]) /\ HasOverride(i)
                                     /\ ~PrimaryOK(i) /\ ~OverrideOK(i)
               /\ (~ReadErrorAt(i) /\ i < NumFields /\ ~(pc = "read" /\ idx = i + 1))
                    => rd[i + 1].read \/ schema[i + 1].jsonTag = ""

\* A required struct field: the primary value is undecodable, the override absent.
C9_Witness ==
    \E i \in 1..NumFields :
        /\ isRequired(schema[i]) /\ HasOverride(i)
        /\ Undecodable(schema[i].kind, config[i].primary)
        /\ config[i].override = JAbsent
        /\ pc = "done" /\ ReadErrorAt(i)

\* C10: an optional field with a default rule whose stored primary value cannot be
\* decoded: the read reports no error, the field stays zero, and the default rule
\* fills it with the default literal.
C10_UndecodableOptionalGetsDefault ==
    \A i \in 1..NumFields :
        (/\ rd[i].read /\ ~isRequired(schema[i]) /\ ~HasOverride(i)
         /\ schema[i].kind \in DefaultKinds /\ FirstTag(i, "default")
         /\ Undecodable(schema[i].kind, config[i].primary))
            => /\ ~ReadErrorAt(i)
               /\ rd[i].merged = Zero(i)
               /\ (Validated(i) /\ DefaultOf(i).ok)
                    => /\ ~FailedAt(i)
                       /\ (Len(TagsOf(i)) = 1 \/ DefaultOf(i).v # Zero(i))
                            => obj[i] = DefaultOf(i).v

\* default_int holds the JSON string "10": the int field resolves to the default 7.
C10_Witness ==
    \E i \in 1..NumFields :
        /\ schema[i].kind = "int" /\ TagsOf(i) = <<Rule("default", <<"7">>)>>
        /\ config[i].primary = JStr(<<"1", "0">>)
        /\ pc = "done" /\ err = NoErr
        /\ obj[i] = 7

\* ------------------------------------------------------ the validation pass

Returned == pc = "done" /\ err.kind # "read"

ErrFields == {err.fields[k] : k \in 1..Len(err.fields)}

\* Field i holds, after the read/merge step, a value that a rule of its tag rejects:
\* a scalar `required` on the zero value, a numeric `default` with a literal that
\* does not parse on the zero value, a Region sub-field outside its `oneof` words.
BreaksRule(i) ==
    \/ /\ schema[i].kind \in ScalarKinds
       /\ FirstTag(i, "required") /\ rd[i].merged = Zero(i)
    \/ /\ schema[i].kind \in {"int", "uint", "float"}
       /\ FirstTag(i, "default") /\ rd[i].merged = Zero(i)
       /\ ParamOf(i, "default") # <<>> /\ ~DefaultOf(i).ok
    \/ /\ schema[i].kind = "struct" /\ schema[i].sub = OneofTags
       /\ rd[i].merged.region \notin {<<"a">>, <<"b">>}

\* The caller's struct-level rule is in effect and rejects field i.
BreaksStructRule(i) ==
    /\ validators = <<StructValidation>>
    /\ schema[i].kind = "struct"
    /\ rd[i].merged.project # <<>> /\ rd[i].merged.region = <<>>

\* The validate tag of field i holds no rule that writes the field.
NoSetter(i) == ~HasTag(i, "default") /\ ~HasTag(i, "env")

\* C11: validation runs on the merged object and rolls nothing back: when a field
\* rule or a struct rule rejects what the read/merge step left, GetConfig returns a
\* validation error, and every field still holds the value the read/merge step
\* wrote (a zero field may since have been filled by its default or env rule).
C11_NoRollbackOnValidationFailure ==
    Returned =>
        /\ (\E i \in 1..NumFields : BreaksRule(i) \/ BreaksStructRule(i))
                => err.kind = "validation"
        /\ err.kind = "validation" <=> verrs # <<>>
        /\ err.kind = "validation" =>
                \A i \in 1..NumFields :
                    (schema[i].kind = "struct" \/ NoSetter(i) \/ rd[i].merged # Zero(i))
                        => obj[i] = rd[i].merged

\* The override sets region to "z", outside the Region rule's words: the field
\* holds "z" and GetConfig returns the validation error.
C11_Witness ==
    \E i \in 1..NumFields :
        /\ schema[i].sub = OneofTags
        /\ LeafOf(config[i].primary, "region") = <<"a">>
        /\ LeafOf(config[i].override, "region") = <<"z">>
        /\ pc = "done" /\ err.kind = "validation"
        /\ obj[i].region = <<"z">>

\* C12: when the values of two fields each break a rule of their own field,
\* GetConfig fails once, with one validation error that names both fields.
C12_AllFailingFieldsReported ==
    \A i, j \in 1..NumFields :
        (i # j /\ Returned /\ BreaksRule(i) /\ BreaksRule(j))
            => /\ err.kind = "validation"
               /\ {i, j} \subseteq ErrFields

\* Two required fields, both absent from the configuration: both are named.
C12_Witness ==
    /\ isRequired(schema[1]) /\ isRequired(schema[2])
    /\ BreaksRule(1) /\ BreaksRule(2)
    /\ pc = "done" /\ err.kind = "validation"
    /\ err.fields = <<1, 2>>

Untagged(i) == schema[i].jsonTag = ""

StructIn(kind, v) == IF kind = "ptr" THEN v.to ELSE v

\* What the read/merge step left in field i carries every non-zero value the
\* override namespace supplies for it.
OverrideMergedIn(i) ==
    LET kind == schema[i].kind
        j    == config[i].override
    IN  IF kind \in ScalarKinds
        THEN LET v == UnmarshalScalar(kind, ZeroOf(kind), j).val
             IN  v # ZeroOf(kind) => rd[i].merged = v
        ELSE \A l \in Leaves :
                LeafOf(j, l) # <<>> => StructIn(kind, rd[i].merged)[l] = LeafOf(j, l)

\* C14: for a top-level field of any kind (struct, pointer to struct, scalar) that
\* has an override namespace, GetConfig loads the field from the main namespace,
\* then loads the override namespace and merges its values into the field.
C14_OverrideOnAnyKind ==
    \A i \in 1..NumFields :
        (HasOverride(i) /\ rd[i].read)
            => /\ pc # "panic"
               /\ Decodes(schema[i].kind, config[i].override) => OverrideMergedIn(i)

\* ------------------------------------------------------------ the merger

MergeEnded == call.fn = "mergeObjects" /\ ret.st # "none"

MergeOK == MergeEnded /\ ret.st = "returned" /\ ret.err = "nil"

PointsTo(o, t) == o.type = PtrT(t) /\ o.v # 0

\* Both operands point to an Outer.
OuterPair == PointsTo(call.obj1, Outer) /\ PointsTo(call.obj2, Outer)

Base == call.heap0[call.obj1.v].val

Over == call.heap0[call.obj2.v].val

Merged == heap[ret.v.v].val

\* C15: for two operands of one struct type, every leaf of merge(base, override),
\* at every depth of struct-kind fields, is the override's value when that value
\* is not the zero of its type, and the base's value otherwise.
C15_LeafwiseOverride ==
    (MergeEnded /\ OuterPair)
        => /\ MergeOK
           /\ \A path \in LeafPaths(Outer) :
                At(Merged, path) =
                    IF At(Over, path) # reflectZero(TypeAt(Outer, path))
                    THEN At(Over, path) ELSE At(Base, path)

\* Two levels down, V comes from the base and W from the override.
C15_Witness ==
    /\ MergeOK /\ OuterPair
    /\ Base[2][2] = <<1, <<"a">>>>
    /\ Over[2][2] = <<0, <<"b">>>>
    /\ Merged[2][2] = <<1, <<"b">>>>

\* Both operands point to a struct of one type.
StructPair ==
    /\ call.obj1.type.k = "ptr" /\ call.obj1.type = call.obj2.type
    /\ call.obj1.type.elem.k = "struct"
    /\ call.obj1.v # 0 /\ call.obj2.v # 0

ElemT == call.obj1.type.elem

RECURSIVE DeepExported(_)
\* Every field of t, at every depth of struct-kind fields, is exported.
DeepExported(t) ==
    \A i \in 1..Len(t.fields) :
        /\ t.fields[i].exported
        /\ t.fields[i].type.k = "struct" => DeepExported(t.fields[i].type)

\* merge(X, zero) and merge(zero, X) both succeed with a value equal to X.
IdentityHolds ==
    /\ Over = reflectZero(ElemT)
            => MergeOK /\ Deep(heap, ElemT, Merged) = Deep(call.heap0, ElemT, Base)
    /\ Base = reflectZero(ElemT)
            => MergeOK /\ Deep(heap, ElemT, Merged) = Deep(call.heap0, ElemT, Over)

\* C16 as stated: merge(X, zero) and merge(zero, X) both equal X, for X of any
\* struct type.
C16_MergeIdentityAny ==
    (MergeEnded /\ StructPair) => IdentityHolds

\* C16: merge(X, zero) and merge(zero, X) both equal X, for X of a struct type
\* whose fields are exported at every depth.
C16_MergeIdentity ==
    (MergeEnded /\ StructPair /\ DeepExported(ElemT)) => IdentityHolds

\* merge(X, zero) with every leaf of X set, its pointer too.
C16_Witness ==
    /\ MergeOK /\ OuterPair
    /\ Over = reflectZero(Outer)
    /\ Base = <<1, <<1, <<1, <<"a">>>>>>, 3>>
    /\ Merged = <<1, <<1, <<1, <<"a">>>>>>, 3>>

\* C17: merge leaves both operands, and everything else in the store, as they
\* were, whether it succeeds or fails; on success the result is a new cell, at
\* neither operand's address.
C17_MergePure ==
    MergeEnded
        => /\ \A a \in 1..Len(call.heap0) : heap[a] = call.heap0[a]
           /\ MergeOK => /\ ret.v.type = call.obj1.type
                          /\ ret.v.v > Len(call.heap0)
                          /\ ret.v.v \notin {call.obj1.v, call.obj2.v}
           /\ ~MergeOK => IsNil(ret.v)

\* A merge whose result differs from both operands, which are as before.
C17_Witness ==
    /\ MergeOK /\ OuterPair
    /\ Merged # Base /\ Merged # Over
    /\ heap[call.obj1.v].val = Base /\ heap[call.obj2.v].val = Over

\* The operand is nil: the nil interface, or a nil pointer.
NilOperand(o) == IsNil(o) \/ (o.type.k = "ptr" /\ o.v = 0)

\* C18: merge rejects an ill-formed pair with an error and a nil result: a nil
\* operand with ErrNilObjects, else operands of different types with
\* ErrDifferentTypes, else operands that are no pointers with ErrNonPointer.
C18_IllFormedRejected ==
    MergeEnded
        => LET anyNil == NilOperand(call.obj1) \/ NilOperand(call.obj2)
               differ == call.obj1.type # call.obj2.type
           IN  /\ anyNil => ret.st = "returned" /\ ret.err = "ErrNilObjects"
               /\ (~anyNil /\ differ)
                    => ret.st = "returned" /\ ret.err = "ErrDifferentTypes"
               /\ (~anyNil /\ ~differ /\ call.obj1.type.k # "ptr")
                    => ret.st = "returned" /\ ret.err = "ErrNonPointer"
               /\ (ret.st = "returned" /\ ret.err # "nil") => IsNil(ret.v)

\* ------------------------------------------------------------ the cloner

CloneEnded == call.fn = "CloneStruct" /\ ret.st # "none"

SrcIsPtr == call.src.type.k = "ptr"

SrcType == IF SrcIsPtr THEN call.src.type.elem ELSE call.src.type

\* The source is a struct, or a pointer to one.
StructSource == IF SrcIsPtr THEN call.src.v # 0 /\ SrcType.k = "struct"
                ELSE SrcType.k = "struct"

SrcVal(h) == IF SrcIsPtr THEN h[call.src.v].val ELSE call.src.v

AllExported(t) == \A i \in 1..Len(t.fields) : t.fields[i].exported

\* C19: no write to the copy CloneStruct returned, at any depth, changes the
\* source value.
C19_CopyIndependent ==
    (CloneEnded /\ ret.st = "written")
        => Deep(heap, SrcType, SrcVal(heap)) = Deep(call.heap0, SrcType, SrcVal(call.heap0))

\* C20: for a struct, or a pointer to a struct, whose fields are all exported,
\* CloneStruct returns a pointer to a new struct of the same type that is deeply
\* equal to the source, the same for a value and for a pointer to it.
C20_CloneDeepEqual ==
    (CloneEnded /\ StructSource /\ AllExported(SrcType))
        => /\ ret.st \in {"returned", "written"} /\ ret.err = "nil"
           /\ ret.v.type = PtrT(SrcType)
           /\ ret.v.v > Len(call.heap0)
           /\ ret.st = "returned"
                => /\ heap[ret.v.v].type = SrcType
                   /\ Deep(heap, SrcType, heap[ret.v.v].val)
                        = Deep(call.heap0, SrcType, SrcVal(call.heap0))
                   /\ \A a \in 1..Len(call.heap0) : heap[a] = call.heap0[a]

\* A pointer to an Outer whose P is set: the copy is a new cell with equal fields.
C20_Witness ==
    /\ CloneEnded /\ ret.st = "returned" /\ SrcIsPtr
    /\ SrcVal(call.heap0) = <<1, <<1, <<1, <<"a">>>>>>, 3>>
    /\ heap[ret.v.v].val = <<1, <<1, <<1, <<"a">>>>>>, 3>>
    /\ ret.v.v # call.src.v

\* ------------------------------------------------------- one call after another

\* The caller passed v to this call.
Supplied(v) == \E k \in 1..Len(validators) : validators[k] = v

\* C21: every GetConfig call builds its own validator: the rules on it are the
\* ones this call was given and the built-in ones, a rule given to an earlier call
\* only reports nothing, and a call given the same validators as an earlier one
\* (same type, configuration and environment) ends with the same object and the
\* same error.
C21_NoCrossCallState ==
    /\ pc \in {"validate", "return"} => registered = validators \o GetValidations
    /\ ~Supplied(StructValidation)
            => \A k \in 1..Len(verrs) : verrs[k].tag # StructValidation
    /\ pc \in {"done", "panic"}
            => \A n \in 1..Len(calls) :
                    calls[n].validators = validators
                        => /\ calls[n].obj = obj
                           /\ calls[n].err = err
                           /\ calls[n].pc = pc

\* A call without the struct-level rule, after one with it that failed on it, ends
\* as the first call without it did.
C21_Witness ==
    /\ pc = "done" /\ Len(calls) = 2
    /\ validators = <<>> /\ err = NoErr
    /\ calls[1].validators = <<>> /\ calls[1].err = NoErr
    /\ calls[2].validators = <<StructValidation>>
    /\ calls[2].err.kind = "validation"

\* The validators of this call in registration order: the caller's, then default,
\* then env.
ToRegister == validators \o GetValidations

\* The first validator of this call whose Register returns an error, 0 if none.
FirstBad ==
    IF \E k \in 1..Len(ToRegister) : RegisterFails(ToRegister[k])
    THEN CHOOSE k \in 1..Len(ToRegister) :
            /\ RegisterFails(ToRegister[k])
            /\ \A j \in 1..(k - 1) : ~RegisterFails(ToRegister[j])
    ELSE 0

\* C27: when a validator's Register returns an error, GetConfig returns that
\* error as it is, has registered only the validators before that one, runs no
\* validation rule, and leaves in the target the values it read and merged.
C27_RegisterErrorEndsCall ==
    /\ FirstBad # 0 => pc \notin {"validate", "return"}
    /\ (FirstBad # 0 /\ pc = "done" /\ err.kind # "read")
            => /\ err = RegisterErr
               /\ registered = SubSeq(ToRegister, 1, FirstBad - 1)
               /\ ran = {} /\ verrs = <<>>
               /\ \A i \in 1..NumFields :
                    obj[i] = IF rd[i].read THEN rd[i].merged ELSE ZeroOf(schema[i].kind)
    /\ err = RegisterErr => FirstBad # 0 /\ pc = "done"

\* The second validator fails to register: the first is registered, a value read
\* from config is in the target, and a field with a default rule is still zero.
C27_Witness ==
    /\ pc = "done" /\ err = RegisterErr
    /\ validators = <<StructValidation, BadValidation>>
    /\ registered = <<StructValidation>>
    /\ \E i \in 1..NumFields : schema[i].kind = "struct" /\ obj[i].region = <<"a">>
    /\ \E i \in 1..NumFields :
            /\ schema[i].validate = <<Rule("default", <<"7">>)>>
            /\ obj[i] = 0

\* ------------------------------------------------- the override on the store

OverwriteEnded == call.fn = "overwriteFieldFromOverwriteCfg" /\ ret.st # "none"

\* The field as reflect.DeepEqual sees it, pointers followed.
FieldDeep(h) == Deep(h, h[call.field].type, h[call.field].val)

\* C23: when the override sequence of a field fails (the key is absent, the value
\* does not decode, the merge fails) the field is as the primary read left it,
\* what its pointer sub-fields point to included.
C23_FailedOverrideLeavesBase ==
    (OverwriteEnded /\ ret.err # "nil") => FieldDeep(heap) = FieldDeep(call.heap0)

\* ------------------------------------------------------- the default rule

\* The value of field i when its default rule runs: what the read/merge step left,
\* or what an env rule declared before it has put there.
BeforeDefault(i) ==
    IF ~FirstTag(i, "default") /\ HasTag(i, "env") /\ rd[i].merged = Zero(i) /\ EnvUsable(i)
    THEN EnvValueOf(i).v
    ELSE rd[i].merged

\* The value of field i as an env rule of its tag, without the default rule, leaves
\* it.
EnvAlone(i) ==
    IF HasTag(i, "env") /\ rd[i].merged = Zero(i) /\ EnvUsable(i)
    THEN EnvValueOf(i).v
    ELSE rd[i].merged

\* The case in which the default rule fails.
DefaultFails(i) ==
    /\ schema[i].kind \in {"int", "uint", "float"}
    /\ BeforeDefault(i) = Zero(i)
    /\ ParamOf(i, "default") # <<>>
    /\ ~DefaultOf(i).ok

DefaultReported(i) ==
    \E k \in 1..Len(verrs) : verrs[k] = [field |-> i, tag |-> "default"]

\* C24: the default rule fails exactly when the field is a signed, unsigned or
\* float number, its value is zero and the literal does not parse; the field then
\* stays zero and GetConfig returns a validation error.  Otherwise the rule passes;
\* it leaves a field whose value is not zero, and a bool, pointer or struct field,
\* as it is.
C24_DefaultFailsExactly ==
    \A i \in 1..NumFields :
        (HasTag(i, "default") /\ Validated(i))
            => /\ DefaultReported(i) <=> DefaultFails(i)
               /\ DefaultFails(i)
                    => /\ obj[i] = Zero(i)
                       /\ pc = "done" => err.kind = "validation" /\ i \in ErrFields
               /\ (~DefaultFails(i) /\ BeforeDefault(i) # Zero(i)) => obj[i] = BeforeDefault(i)
               /\ schema[i].kind \in {"bool", "struct", "ptr"} => obj[i] = EnvAlone(i)

\* ------------------------------------------------------- after a failing rule

Scalar(i) == schema[i].kind \in ScalarKinds

\* The first rule of field i is a default rule that fails.
FirstRuleFails(i) == FirstTag(i, "default") /\ DefaultFails(i)

\* C25 as stated: after a rule has failed, the rules to its right on the same
\* field, and all rules of later fields, still execute.
C25_AllRulesExecute ==
    \A i \in 1..NumFields :
        (Scalar(i) /\ Validated(i)) => \A k \in 1..Len(TagsOf(i)) : <<i, k>> \in ran

\* C25: a failing rule ends its own field only: the rules to its right on that
\* field do not execute (an env rule after it does not fill the field), and the
\* rules of every other field execute whatever failed before.
C25_FailureEndsFieldOnly ==
    \A i \in 1..NumFields :
        (Scalar(i) /\ TagsOf(i) # <<>> /\ Validated(i))
            => /\ <<i, 1>> \in ran
               /\ \A k \in 2..Len(TagsOf(i)) : <<i, k>> \in ran <=> ~FirstRuleFails(i)
               /\ FirstRuleFails(i) => obj[i] = Zero(i) /\ DefaultReported(i)

\* Count int `default=x,env=E` with E=9: default fails, env does not run, Count
\* stays 0; the default rule of the next field still fills it.
C25_Witness ==
    /\ pc = "done" /\ err.kind = "validation"
    /\ schema[1].kind = "int"
    /\ TagsOf(1) = <<Rule("default", <<"x">>), Rule("env", EnvName)>>
    /\ EnvOf(1).val = <<"9">>
    /\ obj[1] = 0 /\ <<1, 2>> \notin ran
    /\ TagsOf(2) = <<Rule("default", <<"7">>)>> /\ <<2, 1>> \in ran /\ obj[2] = 7

\* ------------------------------------------------- the merger's pointers

\* The fields of t that are pointers, by position.
PtrFields(t) == {i \in 1..Len(t.fields) : t.fields[i].type.k = "ptr"}

\* C28: merge treats a pointer field as one leaf: a non-nil pointer of the
\* override is the result's pointer whatever the base's is, a nil one leaves the
\* base's; what the pointers point to is neither merged nor copied, so the result
\* shares it with the operand the pointer came from.
C28_PointerIsLeaf ==
    (MergeEnded /\ OuterPair)
        => /\ MergeOK
           /\ Len(heap) = Len(call.heap0) + 1
           /\ \A i \in PtrFields(Outer) :
                /\ Over[i] # 0 => Merged[i] = Over[i]
                /\ Over[i] = 0 => Merged[i] = Base[i]
                /\ Merged[i] # 0 => /\ Merged[i] <= Len(call.heap0)
                                    /\ heap[Merged[i]] = call.heap0[Merged[i]]

\* Both operands point somewhere, to different values with fields set on each
\* side; the result points where the override does.
C28_Witness ==
    /\ MergeOK /\ OuterPair
    /\ Base[3] = 3 /\ Over[3] = 4 /\ Merged[3] = 4
    /\ heap[3].val = <<1, <<"a">>>> /\ heap[4].val = <<2, <<>>>>

\* ------------------------------------------------- the merger's algebra

\* A third operand's values.
ThirdVals == OuterVals({0, 5}, {<<>>, <<"c">>}, {0, 3, 4})

\* merge on the values of two Outer operands in the store h: the value of the
\* result, as reflect.DeepEqual sees it.
MergeOf(h, x, y) ==
    LET r == mergeObjects(<<Cell(Outer, x), Cell(Outer, y)>> \o SubSeq(h, 3, Len(h)),
                          Iface(PtrT(Outer), 1), Iface(PtrT(Outer), 2))
    IN  [err |-> r.err,
         val |-> IF r.err = "nil" THEN r.heap[r.ret.v].val ELSE <<>>,
         deep |-> IF r.err = "nil" THEN Deep(r.heap, Outer, r.heap[r.ret.v].val) ELSE <<>>]

\* C29: on a struct type of exported fields merge is associative and idempotent:
\* merge(merge(A, B), C) equals merge(A, merge(B, C)) and merge(X, X) equals X.
C29_AssociativeIdempotent ==
    (MergeEnded /\ OuterPair)
        => /\ MergeOK
           /\ \A c \in ThirdVals :
                LET left  == MergeOf(call.heap0, Merged, c)
                    bc    == MergeOf(call.heap0, Over, c)
                    right == MergeOf(call.heap0, Base, bc.val)
                IN  /\ left.err = "nil" /\ bc.err = "nil" /\ right.err = "nil"
                    /\ left.deep = right.deep
           /\ Base = Over => Deep(heap, Outer, Merged) = Deep(call.heap0, Outer, Base)
           /\ MergeOf(call.heap0, Merged, Merged).deep = Deep(heap, Outer, Merged)

\* merge(A, B) with a field set in A only, one in B only and one in both.
C29_Witness ==
    /\ MergeOK /\ OuterPair
    /\ Base[1] = 1 /\ Over[1] = 0
    /\ Base[2][1] = 0 /\ Over[2][1] = 2
    /\ Base[2][2] = <<1, <<"a">>>> /\ Over[2][2] = <<2, <<"b">>>>
    /\ Base[3] = 3 /\ Over[3] = 0
    /\ Merged = <<1, <<2, <<2, <<"b">>>>>>, 3>>

\* ------------------------------------------------- required, and more rules

\* Field i is tagged required plus further rules, and both its reads failed.
RequiredAndMoreUnread(i) ==
    /\ rd[i].read
    /\ FirstTag(i, "required") /\ Len(TagsOf(i)) > 1
    /\ rd[i].err # "nil" /\ rd[i].errOverwrite \notin {"nil", "panic"}

\* C26: the read loop returns an error only for a field whose validate tag is
\* exactly "required"; when both reads of a field tagged required plus further
\* rules fail, GetConfig goes on and reads the field declared after it.
C26_RequiredExactTagOnly ==
    /\ err.kind = "read" => TagsOf(err.field) = <<Rule("required", <<>>)>>
    /\ \A i \in 1..NumFields :
            RequiredAndMoreUnread(i)
                => /\ ~(err.kind = "read" /\ err.field = i)
                   /\ (/\ i < NumFields
                       /\ (pc # "read" \/ idx > i + 1)
                       /\ schema[i + 1].jsonTag # "") => rd[i + 1].read

\* Both reads of the first field, tagged required,default=7, find nothing; the
\* second field is read from config and GetConfig reaches the validator.
C26_Witness ==
    /\ TagsOf(1) = RequiredAndMore
    /\ rd[1].err = "missing" /\ rd[1].errOverwrite = "missing"
    /\ rd[2].read /\ schema[2].kind = "int" /\ obj[2] = 5
    /\ pc = "validate"

\* ------------------------------------------------------- the test helpers

HelperReturned == pt.main = "returned"

\* C22 as stated: a helper that returned has marked the test failed exactly when
\* the values its two outputs resolved to are not equal.
C22_FailedIffResolvedDiffer ==
    HelperReturned => (pt.failed <=> pt.out[1].v # pt.out[2].v)

\* What is under a value's pointers: nothing under a nil pointer of any type.
Underlying(v) ==
    IF Head(v.type) = "*" /\ v.nil THEN NilValue
    ELSE GoVal(SelectSeq(v.type, LAMBDA s : s # "*"), v.nil, v.elems)

\* C22: a helper that returned has marked the test failed exactly when the two
\* resolved values are not deeply equal; AssertStringOutputEqual compares what
\* is under the values' pointers, so a pointer and the value it points to, and
\* two nil pointers of any types, count as equal.
C22_FailedIffComparedDiffer ==
    HelperReturned
        => (pt.failed <=> IF pt.fn = "AssertStringOutputEqual"
                          THEN Underlying(pt.out[1].v) # Underlying(pt.out[2].v)
                          ELSE pt.out[1].v # pt.out[2].v)

\* AssertMapEqual on maps with different values under one key: the test is
\* marked failed.
C22_Witness ==
    /\ pt.fn = "AssertMapEqual" /\ HelperReturned /\ pt.failed
    /\ pt.out[1].v.elems = <<"key=value">> /\ pt.out[2].v.elems = <<"key=">>

BothInvoked == pt.invoked[1] /\ pt.invoked[2]

\* The comparison is under way or done.
PastWait == pt.main \in {"compare", "returned"}

\* The callback of an output will never be invoked: ApplyT on it panicked, or it
\* was rejected.
NeverInvoked == \E i \in 1..2 : pt.out[i].st \in {"broken", "rejected"}

\* C30: a helper gets past wg.Wait, to its comparison and its return, only when
\* both callbacks have been invoked; once a callback can no longer be invoked
\* the helper never gets past wg.Wait.
C30_ReturnsOnlyAfterBothCallbacks ==
    /\ [](PastWait => BothInvoked /\ pt.wg = 0)
    /\ [](NeverInvoked => [](~PastWait /\ ~pt.failed))

\* One callback has run, the other output was rejected, both goroutines have
\* ended: the helper is in wg.Wait with the counter at one.
C30_Witness ==
    /\ pt.fn # "none" /\ pt.main = "wait" /\ pt.go = <<"done", "done">>
    /\ pt.invoked = <<TRUE, FALSE>> /\ pt.out[2].st = "rejected" /\ pt.wg = 1

====
